---- MODULE Spec2Model ----
(***************************************************************************)
(* Portfolio Performance Analyzer (StreamlitAppFinal/src/                  *)
(* portfolio_analyzer.py): the script that runs when the form is           *)
(* submitted, as a state machine.  One request walks through the script's  *)
(* numbered sections: 1. input validation and portfolio parsing, the       *)
(* duplicate-ticker (benchmark) guard, 2. fetch data and portfolio         *)
(* filtering, 3.-5. calculations, metrics and display.                     *)
(*                                                                         *)
(* Numbers.  Weights are Python floats in the program.  Here a weight list *)
(* is a list of integer numerators over one common denominator, kept in    *)
(* lowest terms, so w / total * 100 is computed exactly; np.isclose is     *)
(* computed with its real tolerances (rtol = 1e-05, atol = 1e-08).         *)
(* Prices are positive integers, NaN is a value of its own.                *)
(***************************************************************************)
EXTENDS Integers, Sequences, FiniteSets, TLC

\* Bounds of the model.
MaxTickers == 2
MaxDates == 2

\* The pieces a comma-separated text input is made of.  " " is a piece that
\* is blank after strip(); " B" is a ticker typed after ", ".
TickerTokens == {"A", " B", "SPY", " "}
WeightTokens == {"-30", "0", "30", "40", "100", "100.001", "abc", " "}
BenchmarkInputs == {"", "SPY"}

\* start_str and end_str of the back-test period
DefaultPeriod == <<"2023-01-01", "2024-01-01">>

\* np.nan among prices (prices are positive)
NaN == 0

\* A parsed weight is held as an integer number of thousandths of a percent.
WeightScale == 10 * 10 * 10

VARIABLES
    pc,                  \* position of the script within the request
    tickers_string,      \* form input, a sequence of comma-separated pieces
    weights_string,      \* form input, a sequence of comma-separated pieces
    benchmark_ticker,    \* form input
    dates_ok,            \* form input: start_date < end_date
    valid_input,
    data_valid,
    portfolio_df,        \* [Ticker, Weight, Den]: allocation rows, weights Weight[i] / Den
    validated_df,        \* portfolio_df as built at the end of section 1
    fetched_df,          \* portfolio_df as it was when fetch_data was called
    all_tickers_to_fetch,
    all_data,            \* what yf.download returned to fetch_data
    msgs,                \* st.error / st.warning / st.info calls of this request, in order
    raw_data,            \* the table fetch_data returned, or None
    invalid_tickers_fetch,
    benchmark_data_valid,
    fetch_calls,         \* calls of fetch_data in this request
    rescaled,            \* rescalings of the allocation's weights in this request, in order
    metrics,             \* which branch of calculate_metrics produced each metric group
    returns_len,         \* lengths of the portfolio and benchmark return series
    shown,               \* the result tabs were displayed
    displayed,           \* what the result tabs display
    risk_free_rate_input,     \* form input / 100, a fraction <<numerator, denominator>>
    initial_investment,       \* form input
    portfolio_daily_returns,  \* [index, val]: the dates and the returns on them
    benchmark_daily_returns,  \* [scalar, index, val]; scalar: squeeze() gave a number
    perf_df,                  \* [index, Portfolio_Value, Benchmark_Value]
    period,                   \* form input: <<start_str, end_str>>
    cache,                    \* st.cache_data's entries for fetch_data: [key, value, age]
    downloads,                \* calls of yf.download in this request
    requested                 \* the keys fetch_data was called with in earlier requests
                              \* of the last hour: [key, age]

vars == <<pc, tickers_string, weights_string, benchmark_ticker, dates_ok, valid_input,
          data_valid, portfolio_df, validated_df, fetched_df, all_tickers_to_fetch,
          all_data, msgs, raw_data, invalid_tickers_fetch, benchmark_data_valid, fetch_calls, rescaled, metrics, returns_len, shown, displayed,
          risk_free_rate_input, initial_investment, portfolio_daily_returns,
          benchmark_daily_returns, perf_df, period, cache, downloads, requested>>

\* what section 3 and calculate_metrics work on and build
calc_vars == <<risk_free_rate_input, initial_investment, portfolio_daily_returns,
               benchmark_daily_returns, perf_df>>

\* the cache of fetch_data and what is recorded about its use
cache_vars == <<period, cache, downloads, requested>>

-----------------------------------------------------------------------------
\* Sequences and arithmetic

RECURSIVE SeqSum(_)
SeqSum(s) == IF s = <<>> THEN 0 ELSE Head(s) + SeqSum(Tail(s))

RECURSIVE SelectSeqIdx(_, _)
\* the indices i of s, in order, with i \in keep
SelectSeqIdx(s, keep) ==
    IF s = <<>> THEN <<>>
    ELSE LET n == Len(s)
             front == SelectSeqIdx(SubSeq(s, 1, n - 1), keep)
         IN IF n \in keep THEN Append(front, s[n]) ELSE front

Range(s) == {s[i] : i \in DOMAIN s}

Abs(x) == IF x < 0 THEN -x ELSE x

RECURSIVE GCD(_, _)
GCD(a, b) == IF b = 0 THEN Abs(a) ELSE GCD(b, a % b)

RECURSIVE SeqGCD(_)
SeqGCD(s) == IF s = <<>> THEN 0 ELSE GCD(Head(s), SeqGCD(Tail(s)))

\* A weight list in lowest terms: the same rationals, one representation.
Canon(num, den) ==
    LET g == GCD(SeqGCD(num), den)
    IN [num |-> [i \in DOMAIN num |-> num[i] \div g], den |-> den \div g]

\* Sequences over S of length 0..n
SeqsUpTo(S, n) == UNION {[1..k -> S] : k \in 0..n}

-----------------------------------------------------------------------------
\* Returns and values derived from them are Python floats in the program.  Here they
\* are fractions <<numerator, denominator>> in lowest terms with a positive
\* denominator, computed exactly; np.nan is the pair with denominator 0.
RatNaN == <<0, 0>>

Rat(n, d) ==
    LET g == GCD(Abs(n), Abs(d))
    IN IF d < 0 THEN <<(-n) \div g, (-d) \div g>> ELSE <<n \div g, d \div g>>

IsNaN(a) == a[2] = 0
\* sums over the least common denominator, products after cancelling crosswise
RatAdd(a, b) ==
    IF IsNaN(a) \/ IsNaN(b) THEN RatNaN
    ELSE LET g == GCD(a[2], b[2])
         IN Rat(a[1] * (b[2] \div g) + b[1] * (a[2] \div g), (a[2] \div g) * b[2])
RatSub(a, b) == RatAdd(a, <<-b[1], b[2]>>)
RatMul(a, b) ==
    IF IsNaN(a) \/ IsNaN(b) THEN RatNaN
    ELSE LET g == GCD(Abs(a[1]), b[2])
             h == GCD(Abs(b[1]), a[2])
         IN Rat((a[1] \div g) * (b[1] \div h), (a[2] \div h) * (b[2] \div g))
\* a / b for b # 0
RatDiv(a, b) == IF IsNaN(a) \/ IsNaN(b) THEN RatNaN ELSE RatMul(a, Rat(b[2], b[1]))
\* a < b; a comparison with NaN is False
RatLess(a, b) == ~IsNaN(a) /\ ~IsNaN(b) /\ RatSub(a, b)[1] < 0

One == <<1, 1>>
Zero == <<0, 1>>

-----------------------------------------------------------------------------
\* np.isclose(a, b) is |a - b| <= atol + rtol * |b| with rtol = 1e-05, atol = 1e-08.
\* The value a is s / den.

\* np.isclose(s / den, 0): |s| / den <= 1e-08
IsCloseZero(s, den) == Abs(s) <= den \div 100000000

\* np.isclose(s / den, 100.0): |s - 100 den| / den <= 1e-08 + 1e-05 * 100, that is
\* |s - 100 den| * 10^8 <= 100001 * den, that is 10^5 * (1000 |s - 100 den| - den) <= den.
IsClose100(s, den) ==
    LET a == Abs(s - 100 * den)
    IN IF a > den THEN FALSE ELSE 1000 * a - den <= den \div 100000

\* w / total, without the * 100
Normalize_Fraction(num) ==
    LET g == SeqGCD(num)
    IN Canon([i \in DOMAIN num |-> num[i] \div g], SeqSum(num) \div g)

\* [(w / total) * 100 for w in weights], total = SeqSum(num) / den
Normalize(num) ==
    LET g == SeqGCD(num)
        small == [i \in DOMAIN num |-> num[i] \div g]
    IN Canon([i \in DOMAIN small |-> small[i] * 100], SeqSum(small))

-----------------------------------------------------------------------------
\* Section 1: input validation and portfolio parsing

\* t.strip()
Strip(tok) ==
    CASE tok = " " -> ""
      [] tok = " B" -> "B"
      [] OTHER -> tok

\* [t.strip() for t in s.split(',') if t.strip()]
StripPieces(s) ==
    LET stripped == [i \in DOMAIN s |-> Strip(s[i])]
    IN SelectSeqIdx(stripped, {i \in DOMAIN s : stripped[i] # ""})

\* float(w), in units of 1/WeightScale; "ValueError" when w is not a number
ParseFloat(w) ==
    CASE w = "-30" -> -30 * WeightScale
      [] w = "0" -> 0
      [] w = "30" -> 30 * WeightScale
      [] w = "40" -> 40 * WeightScale
      [] w = "100" -> 100 * WeightScale
      [] w = "100.001" -> 100 * WeightScale + 1
      [] OTHER -> "ValueError"

IsNumeric(w) == w \in {"-30", "0", "30", "40", "100", "100.001"}

EmptyPortfolio == [Ticker |-> <<>>, Weight |-> <<>>, Den |-> 1]

Error(id) == <<"error", id>>
Warning(id) == <<"warning", id>>
Info(id) == <<"info", id>>

\* the two errors are reported and valid_input is left True
CheckDatesBenchmark_StillValid(bm, dok) ==
    [valid |-> TRUE,
     msgs |-> (IF ~dok THEN <<Error("dates")>> ELSE <<>>)
              \o (IF bm = "" THEN <<Error("benchmark_empty")>> ELSE <<>>)]

\* Lines 390-398: date and benchmark validation
CheckDatesBenchmark(bm, dok) ==
    LET m1 == IF ~dok THEN <<Error("dates")>> ELSE <<>>
        m2 == IF bm = "" THEN <<Error("benchmark_empty")>> ELSE <<>>
    IN [valid |-> dok /\ bm # "", msgs |-> m1 \o m2]

\* ParseTickers without its two empty-list checks
ParseTickers_NoEmptyCheck(ts, st) ==
    [valid |-> st.valid, msgs |-> st.msgs, tickers |-> StripPieces(ts)]

\* Lines 400-408: ticker parsing
ParseTickers(ts, st) ==
    IF ts = <<>>
    THEN [valid |-> FALSE, msgs |-> st.msgs \o <<Error("tickers_empty")>>, tickers |-> <<>>]
    ELSE LET tickers == StripPieces(ts)
         IN IF tickers = <<>>
            THEN [valid |-> FALSE, msgs |-> st.msgs \o <<Error("tickers_empty")>>,
                  tickers |-> tickers]
            ELSE [valid |-> st.valid, msgs |-> st.msgs, tickers |-> tickers]

\* Lines 410-423: weight parsing
ParseWeights(ws, st) ==
    IF ws = <<>>
    THEN [valid |-> FALSE, msgs |-> st.msgs \o <<Error("weights_empty")>>,
          tickers |-> st.tickers, weights |-> <<>>]
    ELSE IF st.valid
    THEN LET weights_raw == StripPieces(ws)
         IN IF weights_raw = <<>>
            THEN [valid |-> FALSE, msgs |-> st.msgs \o <<Error("weights_empty")>>,
                  tickers |-> st.tickers, weights |-> <<>>]
            ELSE IF \E i \in DOMAIN weights_raw : ~IsNumeric(weights_raw[i])
            THEN [valid |-> FALSE, msgs |-> st.msgs \o <<Error("weights_numeric")>>,
                  tickers |-> st.tickers, weights |-> <<>>]
            ELSE [valid |-> TRUE, msgs |-> st.msgs, tickers |-> st.tickers,
                  weights |-> [i \in DOMAIN weights_raw |-> ParseFloat(weights_raw[i])]]
    ELSE [valid |-> FALSE, msgs |-> st.msgs, tickers |-> st.tickers, weights |-> <<>>]

\* the check written with <= : a weight of 0 is refused
AnyNegative_OrZero(weights) == \E i \in DOMAIN weights : weights[i] <= 0

\* any(w < 0 for w in weights)
AnyNegative(weights) == \E i \in DOMAIN weights : weights[i] < 0

\* Lines 425-448: lengths, negative weights, total weight, normalization, portfolio_df
CheckWeights(st) ==
    LET none == [valid |-> FALSE, df |-> EmptyPortfolio, rescaled |-> <<>>]
    IN IF ~st.valid THEN none @@ [msgs |-> st.msgs]
       ELSE IF Len(st.tickers) # Len(st.weights)
       THEN none @@ [msgs |-> st.msgs \o <<Error("mismatch")>>]
       ELSE IF AnyNegative(st.weights)
       THEN none @@ [msgs |-> st.msgs \o <<Error("negative")>>]
       ELSE LET total_weight == SeqSum(st.weights)
            IN IF IsCloseZero(total_weight, WeightScale)
               THEN none @@ [msgs |-> st.msgs \o <<Error("total_zero")>>]
               ELSE IF ~IsClose100(total_weight, WeightScale)
               THEN LET w == Normalize(st.weights)
                    IN [valid |-> TRUE, msgs |-> st.msgs \o <<Info("normalized")>>,
                        df |-> [Ticker |-> st.tickers, Weight |-> w.num, Den |-> w.den],
                        rescaled |-> <<"initial">>]
               ELSE LET w == Canon(st.weights, WeightScale)
                    IN [valid |-> TRUE, msgs |-> st.msgs,
                        df |-> [Ticker |-> st.tickers, Weight |-> w.num, Den |-> w.den],
                        rescaled |-> <<>>]

\* Lines 383-448
ValidateInput(ts, ws, bm, dok) ==
    CheckWeights(ParseWeights(ws, ParseTickers(ts, CheckDatesBenchmark(bm, dok))))

-----------------------------------------------------------------------------
\* Duplicate-ticker guard (lines 457-479)

\* portfolio_df[portfolio_df['Ticker'] != benchmark_ticker]
DropTicker(df, t) ==
    LET keep == {i \in DOMAIN df.Ticker : df.Ticker[i] # t}
    IN [Ticker |-> SelectSeqIdx(df.Ticker, keep), Weight |-> SelectSeqIdx(df.Weight, keep),
        Den |-> df.Den]

\* the rows are kept and the weights are left as they were
Renormalized_Skipped(df) == df

\* portfolio_df['Weight'] = (portfolio_df['Weight'] / total) * 100
Renormalized(df) ==
    LET w == Normalize(df.Weight)
    IN [Ticker |-> df.Ticker, Weight |-> w.num, Den |-> w.den]

BenchmarkGuard(df, bm) ==
    IF bm \notin Range(df.Ticker)
    THEN [valid |-> TRUE, df |-> df, msgs |-> <<>>, rescaled |-> <<>>]
    ELSE LET rest == DropTicker(df, bm)
             warn == <<Warning("benchmark_in_portfolio")>>
         IN IF rest.Ticker = <<>>
            THEN [valid |-> FALSE, df |-> rest, rescaled |-> <<>>,
                  msgs |-> warn \o <<Error("empty_after_benchmark")>>]
            ELSE IF IsCloseZero(SeqSum(rest.Weight), rest.Den)
            THEN [valid |-> FALSE, df |-> rest, rescaled |-> <<>>,
                  msgs |-> warn \o <<Error("zero_after_benchmark")>>]
            ELSE [valid |-> TRUE, df |-> Renormalized(rest), rescaled |-> <<"benchmark">>,
                  msgs |-> warn]

-----------------------------------------------------------------------------
\* fetch_data (lines 132-209)

NoTable == [none |-> TRUE, index |-> <<>>, columns |-> {}, val |-> <<>>]

\* yf.download's outcomes: it raises, it returns nothing, or it returns a table over
\* the dates `index` with the price fields `fields`.  With MultiIndex columns (multi)
\* adj and close hold one column per ticker; with flat columns (a single ticker) they
\* hold the one column "Adj Close", "Close".
RawTable(multi, fields, n, adj, close) ==
    [kind |-> "table", multi |-> multi, fields |-> fields, index |-> [i \in 1..n |-> i],
     adj |-> adj, close |-> close]

NoDownload ==
    [kind |-> "none", multi |-> TRUE, fields |-> {}, index |-> <<>>, adj |-> <<>>,
     close |-> <<>>]

\* Every MultiIndex table of n dates with prices in P
RawTables(tickers, n, P) ==
    {RawTable(TRUE, {"Adj Close", "Close"}, n, v, v) : v \in [tickers -> [1..n -> P]]}

\* Every flat table of n dates with prices in P
FlatTables(n, P) ==
    {RawTable(FALSE, {"Adj Close", "Close"}, n, [f \in {"Adj Close"} |-> col],
              [f \in {"Close"} |-> col]) : col \in [1..n -> P]}
    \cup {RawTable(FALSE, {"Close"}, n, <<>>, [f \in {"Close"} |-> col]) : col \in [1..n -> P]}
    \cup {RawTable(FALSE, {}, n, <<>>, <<>>)}

\* Price columns of n dates as listings produce them: no data at all, a full history,
\* a listing after the first date.  The price is 1 on the first date and 2 on the
\* later ones.
ColumnShapes(n) ==
    {[i \in 1..n |-> NaN], [i \in 1..n |-> IF i = 1 THEN 1 ELSE 2],
     [i \in 1..n |-> IF i = 1 THEN NaN ELSE 2]}

\* MultiIndex tables of n dates in which only the tickers of a proper, non-empty subset
\* have an ('Adj Close', ticker) column, while every ticker has ('Close', ticker)
PartialAdjTables(tickers, n) ==
    {RawTable(TRUE, {"Adj Close", "Close"}, n, [t \in sub |-> v[t]], v) :
        v \in [tickers -> ColumnShapes(n)], sub \in (SUBSET tickers) \ {{}, tickers}}

RawFailures(tickers, n) ==
    LET full == [t \in tickers |-> [i \in 1..n |-> IF i = 1 THEN 1 ELSE 2]]
    IN {[NoDownload EXCEPT !.kind = "raise"], [NoDownload EXCEPT !.kind = "empty"],
        RawTable(TRUE, {}, n, <<>>, <<>>),
        RawTable(TRUE, {"Close"}, n, <<>>, full)}

\* The downloads a request is run against (it always asks for two tickers or more).
\* The benchmark bm has no data at all or a full history.
PipelineRaws(tickers, bm) ==
    {RawTable(TRUE, {"Adj Close", "Close"}, MaxDates, v, v) :
        v \in {w \in [tickers -> ColumnShapes(MaxDates)] :
                  w[bm][1] # NaN \/ w[bm][MaxDates] = NaN}}
    \cup RawFailures(tickers, MaxDates)

\* A download of three dates: A returns 1 % then -2 %, B returns 2 % then 0 %, SPY
\* 100 % then 50 %
ExamplePrices ==
    [t \in {"A", "B", "SPY"} |->
        CASE t = "A" -> <<5000, 5050, 4949>>
          [] t = "B" -> <<50, 51, 51>>
          [] OTHER -> <<1, 2, 3>>]

ExampleTable(tickers) ==
    RawTable(TRUE, {"Adj Close", "Close"}, 3, [t \in tickers |-> ExamplePrices[t]],
             [t \in tickers |-> ExamplePrices[t]])

\* The example is run for the allocations whose weights are fractions of a small
\* denominator, for which every product of section 3 stays below 2^31
ExampleRaws(tickers, df) ==
    IF df.Den < WeightScale THEN {ExampleTable(tickers)} ELSE {}

\* all_data[['Adj Close']] of a flat table, renamed to the ticker when there is one
FlatColumn(index, col, tickers) ==
    LET name == IF Cardinality(tickers) = 1 THEN tickers ELSE DOMAIN col
    IN [none |-> FALSE, index |-> index, columns |-> name,
        val |-> [c \in name |-> col[CHOOSE f \in DOMAIN col : TRUE]]]

\* Lines 146-167: all_data['Adj Close'], else all_data['Close']
SelectPrices(raw, tickers) ==
    IF raw.multi
    THEN IF "Adj Close" \in raw.fields
         THEN [none |-> FALSE, index |-> raw.index, columns |-> DOMAIN raw.adj,
               val |-> raw.adj]
         ELSE [none |-> FALSE, index |-> raw.index, columns |-> DOMAIN raw.close,
               val |-> raw.close]
    ELSE IF "Adj Close" \in raw.fields
         THEN FlatColumn(raw.index, raw.adj, tickers)
         ELSE FlatColumn(raw.index, raw.close, tickers)

\* isnull().any() in the place of isnull().all()
AllNaN_Any(col) == \E i \in DOMAIN col : col[i] = NaN

\* data[ticker].isnull().all()
AllNaN(col) == \A i \in DOMAIN col : col[i] = NaN

\* a table that is never taken to be empty
IsEmpty_Never(t) == FALSE

\* df.empty: an axis of length 0
IsEmpty(t) == t.columns = {} \/ t.index = <<>>

\* data.drop(columns=...)
DropColumns(t, drop) ==
    [none |-> FALSE, index |-> t.index, columns |-> t.columns \ drop,
     val |-> [c \in t.columns \ drop |-> t.val[c]]]

\* how='any' in the place of how='all'
DropAllNaNRows_Any(t) ==
    LET keep == {i \in DOMAIN t.index : \A c \in t.columns : t.val[c][i] # NaN}
    IN [none |-> FALSE, index |-> SelectSeqIdx(t.index, keep), columns |-> t.columns,
        val |-> [c \in t.columns |-> SelectSeqIdx(t.val[c], keep)]]

\* valid_data.dropna(axis=0, how='all')
DropAllNaNRows(t) ==
    LET keep == {i \in DOMAIN t.index : \E c \in t.columns : t.val[c][i] # NaN}
    IN [none |-> FALSE, index |-> SelectSeqIdx(t.index, keep), columns |-> t.columns,
        val |-> [c \in t.columns |-> SelectSeqIdx(t.val[c], keep)]]

RECURSIVE FFillAt(_, _)
FFillAt(col, i) ==
    IF col[i] # NaN THEN col[i] ELSE IF i = 1 THEN NaN ELSE FFillAt(col, i - 1)

RECURSIVE BFillAt(_, _)
BFillAt(col, i) ==
    IF col[i] # NaN THEN col[i] ELSE IF i = Len(col) THEN NaN ELSE BFillAt(col, i + 1)

\* the forward fill left out
FFill_Skipped(t) == t

\* valid_data.ffill()
FFill(t) == [t EXCEPT !.val = [c \in t.columns |-> [i \in DOMAIN t.val[c] |-> FFillAt(t.val[c], i)]]]

\* the back-fill left out
BFill_Skipped(t) == t

\* valid_data.bfill()
BFill(t) == [t EXCEPT !.val = [c \in t.columns |-> [i \in DOMAIN t.val[c] |-> BFillAt(t.val[c], i)]]]

\* Lines 173-198
CleanPrices(data, tickers) ==
    LET invalid_tickers_nan == {c \in data.columns : AllNaN(data.val[c])}
        valid_data == DropColumns(data, invalid_tickers_nan)
    IN IF IsEmpty(valid_data)
       THEN [data |-> NoTable, invalid |-> tickers, msgs |-> <<Warning("fetch_all_nan")>>]
       ELSE LET filled == BFill(FFill(DropAllNaNRows(valid_data)))
            IN IF IsEmpty(filled)
               THEN [data |-> NoTable, invalid |-> tickers,
                     msgs |-> <<Warning("fetch_empty_after_fill")>>]
               ELSE [data |-> filled, invalid |-> tickers \ filled.columns, msgs |-> <<>>]

fetch_data(tickers, raw) ==
    IF raw.kind = "raise"
    THEN [data |-> NoTable, invalid |-> tickers, msgs |-> <<Error("fetch_exception")>>]
    ELSE IF raw.kind = "empty"
    THEN [data |-> NoTable, invalid |-> tickers, msgs |-> <<Warning("fetch_no_data")>>]
    ELSE IF "Adj Close" \notin raw.fields /\ "Close" \notin raw.fields
    THEN [data |-> NoTable, invalid |-> tickers, msgs |-> <<Error("fetch_no_price_field")>>]
    ELSE CleanPrices(SelectPrices(raw, tickers), tickers)

-----------------------------------------------------------------------------
\* Section 2 after the fetch: lines 490-544

\* st.info of line 518
RenormalizingNotice_Missing == <<>>

RenormalizingNotice == <<Info("renormalizing")>>

\* the portfolio is not filtered at all
FilterPortfolio_Unfiltered(df, fetched_tickers) ==
    [ok |-> TRUE, df |-> df, msgs |-> <<>>, rescaled |-> <<>>]

\* Lines 501-529: filter the portfolio on the fetched columns, re-normalize
FilterPortfolio(df, fetched_tickers) ==
    LET missing == {i \in DOMAIN df.Ticker : df.Ticker[i] \notin fetched_tickers}
        kept == [Ticker |-> SelectSeqIdx(df.Ticker, DOMAIN df.Ticker \ missing),
                 Weight |-> SelectSeqIdx(df.Weight, DOMAIN df.Ticker \ missing),
                 Den |-> df.Den]
        warn == <<Warning("portfolio_tickers_excluded")>>
    IN IF missing = {}
       THEN [ok |-> TRUE, df |-> df, msgs |-> <<>>, rescaled |-> <<>>]
       ELSE IF kept.Ticker = <<>>
       THEN [ok |-> FALSE, df |-> kept, rescaled |-> <<>>,
             msgs |-> warn \o <<Error("no_portfolio_data")>>]
       ELSE IF IsClose100(SeqSum(kept.Weight), kept.Den)
       THEN [ok |-> TRUE, df |-> kept, msgs |-> warn, rescaled |-> <<>>]
       ELSE IF IsCloseZero(SeqSum(kept.Weight), kept.Den)
       THEN [ok |-> FALSE, df |-> kept, rescaled |-> <<>>,
             msgs |-> warn \o RenormalizingNotice \o <<Error("zero_after_filtering")>>]
       ELSE [ok |-> TRUE, df |-> Renormalized(kept), rescaled |-> <<"dropout">>,
             msgs |-> warn \o RenormalizingNotice]

\* Lines 532-544: the benchmark column.  After cleaning no column is all NaN unless
\* the table has no rows, so line 539 is evaluated as written.
BenchmarkCheck(table, bm) ==
    IF bm \notin table.columns
    THEN [valid |-> FALSE, msgs |-> <<Warning("benchmark_unavailable")>>]
    ELSE IF AllNaN(table.val[bm])
    THEN [valid |-> FALSE, msgs |-> <<Warning("benchmark_all_nan")>>]
    ELSE [valid |-> TRUE, msgs |-> <<>>]

-----------------------------------------------------------------------------
\* Section 3: calculations (lines 547-612)

EmptySeries == [index |-> <<>>, val |-> <<>>]
NoBenchmarkSeries == [scalar |-> FALSE, index |-> <<>>, val |-> <<>>]
EmptyFrame == [index |-> <<>>, Portfolio_Value |-> <<>>, Benchmark_Value |-> <<>>]

\* an exception nothing catches: Streamlit shows it and the script run ends
Exception(id) == <<"exception", id>>

\* column.pct_change(): price[t] / price[t-1] - 1, NaN on the first date
PctChange(col) ==
    [i \in DOMAIN col |->
        IF i = 1 \/ col[i] = NaN \/ col[i - 1] = NaN THEN RatNaN
        ELSE RatSub(RatDiv(<<col[i], 1>>, <<col[i - 1], 1>>), One)]

\* raw_data[portfolio_df['Ticker'].tolist()].pct_change().dropna(how='all'): one column
\* of returns per row of the allocation, without the dates on which every return is NaN
PortfolioReturnsData(table, columns) ==
    LET pct == [k \in DOMAIN columns |-> PctChange(table.val[columns[k]])]
        keep == {i \in DOMAIN table.index : \E k \in DOMAIN columns : ~IsNaN(pct[k][i])}
    IN [index |-> SelectSeqIdx(table.index, keep),
        val |-> [k \in DOMAIN columns |-> SelectSeqIdx(pct[k], keep)]]

\* the weights in percent, not divided by 100
AlignedWeights_Percent(df, columns) ==
    [k \in DOMAIN columns |-> Rat(df.Weight[k], df.Den)]

\* portfolio_df.set_index('Ticker').reindex(portfolio_data.columns)['Weight'] / 100.0;
\* the columns are the allocation's tickers in the allocation's order (line 554), so
\* reindex returns the rows as they are
AlignedWeights(df, columns) ==
    [k \in DOMAIN columns |-> Rat(df.Weight[k], df.Den * 100)]

\* the sum over the columns 1..k of returns[c][i] * weights[c], NaN skipped
RowSum(returns, weights, i) ==
    LET F[k \in 0..Len(weights)] ==
            IF k = 0 THEN Zero
            ELSE IF IsNaN(returns[k][i]) THEN F[k - 1]
            ELSE RatAdd(F[k - 1], RatMul(returns[k][i], weights[k]))
    IN F[Len(weights)]

\* (portfolio_returns_data * aligned_weights).sum(axis=1)
WeightedReturns(data, weights) ==
    [index |-> data.index,
     val |-> [i \in DOMAIN data.index |-> RowSum(data.val, weights, i)]]

\* DataFrame.squeeze() of a one-column frame: a Series, but a number when the frame
\* has exactly one row
Squeeze(series) ==
    IF Len(series.index) = 1
    THEN [scalar |-> TRUE, index |-> <<>>, val |-> series.val]
    ELSE [scalar |-> FALSE, index |-> series.index, val |-> series.val]

\* benchmark_data.pct_change().dropna().squeeze()
BenchmarkReturns(table, bm) ==
    LET pct == PctChange(table.val[bm])
        keep == {i \in DOMAIN pct : ~IsNaN(pct[i])}
    IN Squeeze([index |-> SelectSeqIdx(table.index, keep), val |-> SelectSeqIdx(pct, keep)])

\* a.difference(b) in the place of a.intersection(b)
Intersection_Difference(a, b) ==
    SelectSeqIdx(a, {i \in DOMAIN a : a[i] \notin Range(b)})

\* a.intersection(b) of two date indexes
Intersection(a, b) ==
    SelectSeqIdx(a, {i \in DOMAIN a : a[i] \in Range(b)})

\* series.loc[common_index]
Loc(series, common_index) ==
    [index |-> common_index,
     val |-> [k \in DOMAIN common_index |->
                 series.val[CHOOSE i \in DOMAIN series.index :
                                series.index[i] = common_index[k]]]]

\* Standard deviation and correlation.  A list of returns x (no NaN among them) is
\* written x[i] = x[1] + scale * z[i] with integers z of greatest common divisor 1 and
\* a fraction scale > 0; then Series.std() (ddof = 1) is
\*     scale * sqrt(SumSq(z, z) / (n * (n - 1))),   SumSq(z, z) = n * sum z^2 - (sum z)^2,
\* and the correlation of x and y is SumSq(zx, zy) / sqrt(SumSq(zx, zx) * SumSq(zy, zy)).
LCM(a, b) == (a \div GCD(a, b)) * b

CommonDenominator(x) ==
    LET F[k \in 0..Len(x)] == IF k = 0 THEN 1 ELSE LCM(F[k - 1], x[k][2])
    IN F[Len(x)]

Standardize(x) ==
    LET L == CommonDenominator(x)
        shifted == [i \in DOMAIN x |-> x[i][1] * (L \div x[i][2]) - x[1][1] * (L \div x[1][2])]
        g == IF SeqGCD(shifted) = 0 THEN 1 ELSE SeqGCD(shifted)
    IN [scale |-> Rat(g, L), z |-> [i \in DOMAIN x |-> shifted[i] \div g]]

SumSq(zx, zy) ==
    LET n == Len(zx)
    IN n * SeqSum([i \in DOMAIN zx |-> zx[i] * zy[i]]) - SeqSum(zx) * SeqSum(zy)

\* 0 in the place of NaN for a single value
Std_ZeroForOne(x) ==
    IF Len(x) < 2 THEN [nan |-> Len(x) = 0, scale |-> One, ss |-> 0, n |-> Len(x)]
    ELSE [nan |-> FALSE, scale |-> Standardize(x).scale,
          ss |-> SumSq(Standardize(x).z, Standardize(x).z), n |-> Len(x)]

\* Series.std(): NaN for fewer than two values, else scale * sqrt(ss / (n * (n - 1)))
Std(x) ==
    IF Len(x) < 2 THEN [nan |-> TRUE, scale |-> Zero, ss |-> 0, n |-> Len(x)]
    ELSE LET s == Standardize(x)
         IN [nan |-> FALSE, scale |-> s.scale, ss |-> SumSq(s.z, s.z), n |-> Len(x)]

\* portfolio_daily_returns.std() < 1e-10 (NaN < 1e-10 is False).  A standard deviation
\* that is not 0 is at least scale / n, which is at least 1e-10 when the denominator of
\* scale is at most 1e9 / n; beyond that the squares are compared.
StdBelowThreshold(x) ==
    \E sd \in {Std(x)} :
        IF sd.nan THEN FALSE
        ELSE IF sd.ss = 0 THEN TRUE
        ELSE IF sd.scale[2] <= 1000000000 \div sd.n THEN FALSE
        ELSE sd.scale[1] * sd.scale[1] * sd.ss * 100000 * 100000 * 100000 * 100000
                 < sd.scale[2] * sd.scale[2] * sd.n * (sd.n - 1)

\* np.isclose(correlation, 1.0, atol=1e-4): correlation >= 1 - (1e-4 + 1e-5), that is
\* sxy > 0 and sxy^2 / (sxx * syy) >= 0.99989^2 = 0.9997800121, compared five decimal
\* digits at a time.  The correlation is NaN (and the test False) for fewer than two
\* dates and when a series is constant.
CorrelationNearOne(x, y) ==
    /\ Len(x) >= 2
    /\ \E zx \in {Standardize(x).z}, zy \in {Standardize(y).z} :
       \E sxx \in {SumSq(zx, zx)}, syy \in {SumSq(zy, zy)}, sxy \in {SumSq(zx, zy)} :
          /\ sxx # 0 /\ syy # 0 /\ sxy > 0
          /\ \E q \in {RatMul(Rat(sxy, sxx), Rat(sxy, syy))} :
             \E hi \in {(q[1] * 100000) \div q[2]} :
             \E lo \in {((q[1] * 100000 - hi * q[2]) * 100000) \div q[2]} :
                hi > 99978 \/ (hi = 99978 /\ lo >= 121)

\* initial_investment * (1 + returns), the returns not compounded
CumulativeValue_NotCompounded(investment, val) ==
    [k \in DOMAIN val |-> RatMul(<<investment, 1>>, RatAdd(One, val[k]))]

\* initial_investment * (1 + returns).cumprod()
CumulativeValue(investment, val) ==
    LET F[k \in 0..Len(val)] ==
            IF k = 0 THEN <<>>
            ELSE LET before == F[k - 1]
                 IN Append(before,
                           RatMul(IF k = 1 THEN <<investment, 1>> ELSE before[k - 1],
                                  RatAdd(One, val[k])))
    IN F[Len(val)]

\* the day of the first return in the place of the day before it
StartRowDate_FirstDay(index) == CHOOSE d \in Range(index) : \A e \in Range(index) : d <= e

\* Line 602: perf_df.index.min() - pd.Timedelta(days=1)
StartRowDate(index) == (CHOOSE d \in Range(index) : \A e \in Range(index) : d <= e) - 1

\* the place of row i when the rows are put in ascending order of date
Rank(index, i) ==
    Cardinality({j \in DOMAIN index :
                    index[j] < index[i] \/ (index[j] = index[i] /\ j < i)}) + 1

\* Line 612: perf_df.sort_index(inplace=True)
SortIndex(frame) ==
    LET at == [k \in DOMAIN frame.index |->
                  CHOOSE i \in DOMAIN frame.index : Rank(frame.index, i) = k]
    IN [index |-> [k \in DOMAIN at |-> frame.index[at[k]]],
        Portfolio_Value |-> [k \in DOMAIN at |-> frame.Portfolio_Value[at[k]]],
        Benchmark_Value |-> [k \in DOMAIN at |-> frame.Benchmark_Value[at[k]]]]

\* np.nan whether or not there is a benchmark
InitialBenchmark_NaN(investment, benchmark_valid) == RatNaN

\* Lines 604-607: the benchmark value of the initial row
InitialBenchmark(investment, benchmark_valid) ==
    IF benchmark_valid THEN <<investment, 1>> ELSE RatNaN

\* Lines 590-612: perf_df with the row of the initial investment put before it, on
\* the day before the first return, and sorted by date
GrowthCurve(pr, br, investment, benchmark_valid) ==
    IF pr.index = <<>> THEN EmptyFrame
    ELSE LET Benchmark_Value ==
                 IF br.index # <<>> THEN CumulativeValue(investment, br.val)
                 ELSE [k \in DOMAIN pr.index |-> RatNaN]
             initial_benchmark == InitialBenchmark(investment, benchmark_valid)
         IN SortIndex(
               [index |-> <<StartRowDate(pr.index)>> \o pr.index,
                Portfolio_Value |-> <<(<<investment, 1>>)>>
                                        \o CumulativeValue(investment, pr.val),
                Benchmark_Value |-> <<initial_benchmark>> \o Benchmark_Value])

-----------------------------------------------------------------------------
\* calculate_metrics (lines 211-311)
\*
\* A metric is a float in the program.  Here it is one of
\*   [tag |-> "nan"], [tag |-> "inf"],
\*   [tag |-> "num", val |-> q]                       the fraction q,
\*   [tag |-> "cagr", base |-> b, years |-> y, times |-> k] k * (b ^ (1 / y) - 1),
\*   [tag |-> "std", dev |-> Std(x), times |-> k]           k * x.std() * sqrt(252),
\*   [tag |-> "ratio", ret |-> r, rf |-> f, dev |-> d]      (r - f) / d for metrics r, d.
trading_days == 252

\* 0.0 in the place of np.nan
NaNValue_Zero == [tag |-> "num", val |-> Zero]

NaNValue == [tag |-> "nan"]
Inf == [tag |-> "inf"]
Num(q) == IF IsNaN(q) THEN NaNValue ELSE [tag |-> "num", val |-> q]
Cagr(base, years, times) ==
    [tag |-> "cagr", base |-> base, years |-> years, times |-> times]
Annualized(dev, times) ==
    IF dev.nan THEN NaNValue ELSE [tag |-> "std", dev |-> dev, times |-> times]

\* (ret - rf) / dev as floats give it: NaN when dev is NaN
Ratio(ret, rf, dev) ==
    IF ret.tag = "nan" \/ dev.tag = "nan" THEN NaNValue
    ELSE [tag |-> "ratio", ret |-> ret, rf |-> rf, dev |-> dev]

\* (1 + returns).prod()
Prod(val) ==
    LET F[k \in 0..Len(val)] ==
            IF k = 0 THEN One ELSE RatMul(F[k - 1], RatAdd(One, val[k]))
    IN F[Len(val)]

\* a ^ k for a natural number k
RatPow(a, k) ==
    LET F[i \in 0..k] == IF i = 0 THEN One ELSE RatMul(F[i - 1], a)
    IN F[k]

\* annualized_return > risk_free_rate, False for NaN.  For base ^ (1 / years) - 1 with
\* years = n / d <= 1 and rf >= 0: True when base > 1 + rf (then base ^ (1 / years) >=
\* base), False when base <= 1; in between the powers base ^ d and (1 + rf) ^ n are
\* compared.
ExceedsRiskFree(ret, rf) ==
    CASE ret.tag = "nan" -> FALSE
      [] ret.tag = "num" -> RatLess(rf, ret.val)
      [] ret.tag = "cagr" ->
            IF /\ ~RatLess(One, ret.years)
               /\ ~RatLess(rf, Zero)
               /\ RatLess(RatAdd(One, rf), ret.base)
            THEN TRUE
            ELSE IF ~RatLess(rf, Zero) /\ ~RatLess(One, ret.base) THEN FALSE
            ELSE RatLess(RatPow(RatAdd(One, rf), ret.years[1]),
                         RatPow(ret.base, ret.years[2]))

\* np.nan for every base that is not positive
LossReturn_NaN(base) == NaNValue

\* Line 231 (289): -100.0 if np.isclose(base, 0) else np.nan
LossReturn(base) ==
    IF IsCloseZero(base[1], base[2]) THEN Num(<<-100, 1>>) ELSE NaNValue

\* Lines 222-235 (282-293): the annualized return that is reported, in percent, and
\* the value kept in annualized_portfolio_return for the ratios
AnnualizedReturn(returns) ==
    LET years == Rat(Len(returns), trading_days)
        base == Prod(returns)
    IN IF RatLess(Zero, years)
       THEN IF RatLess(Zero, base)
            THEN [reported |-> Cagr(base, years, 100), kept |-> Cagr(base, years, 1)]
            ELSE [reported |-> LossReturn(base), kept |-> Num(<<-1, 1>>)]
       ELSE [reported |-> NaNValue, kept |-> NaNValue]

\* annualized_portfolio_volatility != 0, downside_deviation != 0: NaN is not 0
DeviationNotZero(dev) == dev.nan \/ dev.ss # 0

\* Lines 240-244 (298-302)
SharpeRatio(kept, rf, dev) ==
    IF DeviationNotZero(dev) /\ kept.tag # "nan"
    THEN Ratio(kept, rf, Annualized(dev, 1))
    ELSE NaNValue

\* portfolio_returns[portfolio_returns < 0]
NegativeReturns(returns) ==
    SelectSeqIdx(returns, {i \in DOMAIN returns : RatLess(returns[i], Zero)})

\* np.nan in the place of np.inf
SortinoNoDownside_NaN(kept, rf) == IF ExceedsRiskFree(kept, rf) THEN NaNValue ELSE Num(Zero)

\* Line 255: no negative returns
SortinoNoDownside(kept, rf) == IF ExceedsRiskFree(kept, rf) THEN Inf ELSE Num(Zero)

\* Lines 246-255
SortinoRatio(returns, kept, rf) ==
    LET negative_returns == NegativeReturns(returns)
    IN IF negative_returns # <<>>
       THEN LET downside_deviation == Std(negative_returns)
            IN IF DeviationNotZero(downside_deviation) /\ kept.tag # "nan"
               THEN Ratio(kept, rf, Annualized(downside_deviation, 1))
               ELSE NaNValue
       ELSE SortinoNoDownside(kept, rf)

\* cumulative_wealth.cummax()
RollingMax(cumulative_wealth) ==
    LET F[k \in 0..Len(cumulative_wealth)] ==
            IF k = 0 THEN <<>>
            ELSE LET before == F[k - 1]
                 IN Append(before,
                           IF k > 1 /\ ~RatLess(before[k - 1], cumulative_wealth[k])
                           THEN before[k - 1] ELSE cumulative_wealth[k])
    IN F[Len(cumulative_wealth)]

\* (cumulative_wealth - rolling_max) / rolling_max; 0 / 0 is NaN
DrawdownFrom(cumulative_wealth, rolling_max) ==
    [k \in DOMAIN cumulative_wealth |->
        IF rolling_max[k][1] = 0 THEN RatNaN
        ELSE RatDiv(RatSub(cumulative_wealth[k], rolling_max[k]), rolling_max[k])]

\* Lines 258-260
Drawdown(returns) ==
    DrawdownFrom(CumulativeValue(1, returns), RollingMax(CumulativeValue(1, returns)))

\* Series.min(): the least value that is not NaN, NaN when there is none
SeriesMin(val) ==
    LET F[k \in 0..Len(val)] ==
            IF k = 0 THEN RatNaN
            ELSE LET before == F[k - 1]
                 IN IF IsNaN(val[k]) THEN before
                    ELSE IF IsNaN(before) \/ RatLess(val[k], before) THEN val[k]
                    ELSE before
    IN F[Len(val)]

\* Lines 257-262: max_drawdown_value * 100, NaN when it is NaN
MaxDrawdown(returns) == Num(RatMul(SeriesMin(Drawdown(returns)), <<100, 1>>))

\* the four metrics of a group from base = (1 + returns).prod(), the annualized return
\* a and dev = returns.std()
GroupMetrics(base, a, dev, rf) ==
    [total |-> Num(RatMul(RatSub(base, One), <<100, 1>>)),
     annualized |-> a.reported,
     kept |-> a.kept,
     volatility |-> Annualized(dev, 100),
     sharpe |-> SharpeRatio(a.kept, rf, dev)]

\* Lines 218-244 for the portfolio, 278-302 for the benchmark
ReturnMetrics(returns, rf) ==
    GroupMetrics(Prod(returns), AnnualizedReturn(returns), Std(returns), rf)

\* Which branch fills each group of metrics.
\* "nan" is the branch that sets every metric of the group to np.nan.
MetricsBranch_NeverNaN(n) == "computed"

MetricsBranch(n) == IF n > 0 THEN "computed" ELSE "nan"

\* Lines 218-262
PortfolioValues(p, returns, rf) ==
    [total_portfolio_return |-> p.total,
     annualized_portfolio_return |-> p.annualized,
     annualized_portfolio_volatility |-> p.volatility,
     portfolio_sharpe_ratio |-> p.sharpe,
     portfolio_sortino_ratio |-> SortinoRatio(returns, p.kept, rf),
     portfolio_max_drawdown |-> MaxDrawdown(returns)]

\* Lines 216-273
PortfolioMetrics(returns, rf) ==
    IF MetricsBranch(Len(returns)) = "computed"
    THEN PortfolioValues(ReturnMetrics(returns, rf), returns, rf)
    ELSE [total_portfolio_return |-> NaNValue,
          annualized_portfolio_return |-> NaNValue,
          annualized_portfolio_volatility |-> NaNValue,
          portfolio_sharpe_ratio |-> NaNValue,
          portfolio_sortino_ratio |-> NaNValue,
          portfolio_max_drawdown |-> NaNValue]

\* Lines 278-302
BenchmarkValues(b) ==
    [total_benchmark_return |-> b.total,
     annualized_benchmark_return |-> b.annualized,
     annualized_benchmark_volatility |-> b.volatility,
     benchmark_sharpe_ratio |-> b.sharpe]

\* Lines 276-309
BenchmarkMetrics(returns, rf) ==
    IF MetricsBranch(Len(returns)) = "computed"
    THEN BenchmarkValues(ReturnMetrics(returns, rf))
    ELSE [total_benchmark_return |-> NaNValue,
          annualized_benchmark_return |-> NaNValue,
          annualized_benchmark_volatility |-> NaNValue,
          benchmark_sharpe_ratio |-> NaNValue]

calculate_metrics(portfolio_returns, benchmark_returns, risk_free_rate) ==
    [portfolio |-> MetricsBranch(Len(portfolio_returns)),
     benchmark |-> MetricsBranch(Len(benchmark_returns)),
     values |-> PortfolioMetrics(portfolio_returns, risk_free_rate)
                    @@ BenchmarkMetrics(benchmark_returns, risk_free_rate)]

NoMetrics == [portfolio |-> "none", benchmark |-> "none", values |-> [none |-> TRUE]]

-----------------------------------------------------------------------------
Init ==
    /\ pc = "idle"
    /\ tickers_string = <<>>
    /\ weights_string = <<>>
    /\ benchmark_ticker = ""
    /\ dates_ok = TRUE
    /\ valid_input = TRUE
    /\ data_valid = FALSE
    /\ portfolio_df = EmptyPortfolio
    /\ validated_df = EmptyPortfolio
    /\ fetched_df = EmptyPortfolio
    /\ all_tickers_to_fetch = {}
    /\ all_data = NoDownload
    /\ msgs = <<>>
    /\ raw_data = NoTable
    /\ invalid_tickers_fetch = {}
    /\ benchmark_data_valid = FALSE
    /\ fetch_calls = 0
    /\ rescaled = <<>>
    /\ metrics = NoMetrics
    /\ returns_len = [portfolio |-> 0, benchmark |-> 0]
    /\ shown = FALSE
    /\ displayed = {}
    /\ risk_free_rate_input = <<1, 100>>
    /\ initial_investment = 10000
    /\ portfolio_daily_returns = EmptySeries
    /\ benchmark_daily_returns = NoBenchmarkSeries
    /\ perf_df = EmptyFrame
    /\ period = DefaultPeriod
    /\ cache = {}
    /\ downloads = 0
    /\ requested = {}

\* "Run Analysis" is pressed (line 381) and section 1 runs (lines 383-448).
Validate ==
    /\ pc = "idle"
    /\ \E ts \in SeqsUpTo(TickerTokens, MaxTickers), ws \in SeqsUpTo(WeightTokens, MaxTickers),
          bm \in BenchmarkInputs, dok \in BOOLEAN :
          \* after a failed date or benchmark check only the emptiness of the two
          \* lists is looked at: they are drawn with one token at most
          /\ IF dok /\ bm # "" THEN TRUE ELSE Len(ts) <= 1 /\ Len(ws) <= 1
          /\ LET r == ValidateInput(ts, ws, bm, dok)
             IN /\ tickers_string' = ts
                /\ weights_string' = ws
                /\ benchmark_ticker' = bm
                /\ dates_ok' = dok
                /\ valid_input' = r.valid
                /\ portfolio_df' = r.df
                /\ validated_df' = r.df
                /\ msgs' = r.msgs
                /\ rescaled' = r.rescaled
    /\ pc' = "guard"
    /\ UNCHANGED <<fetched_df, all_tickers_to_fetch, all_data, data_valid, raw_data, invalid_tickers_fetch, benchmark_data_valid,
                   fetch_calls, metrics, returns_len, shown, displayed, calc_vars, cache_vars>>

\* Lines 457-479; with valid_input false the script falls through to its end.
Guard ==
    /\ pc = "guard"
    /\ IF valid_input
       THEN LET r == BenchmarkGuard(portfolio_df, benchmark_ticker)
            IN /\ valid_input' = r.valid
               /\ portfolio_df' = r.df
               /\ msgs' = msgs \o r.msgs
               /\ rescaled' = rescaled \o r.rescaled
               /\ pc' = IF r.valid THEN "fetch" ELSE "done"
       ELSE /\ pc' = "done"
            /\ UNCHANGED <<valid_input, portfolio_df, msgs, rescaled>>
    /\ UNCHANGED <<tickers_string, weights_string, benchmark_ticker, dates_ok, data_valid,
                   validated_df, fetched_df, all_tickers_to_fetch, all_data, raw_data, invalid_tickers_fetch, benchmark_data_valid,
                   fetch_calls, metrics, returns_len, shown, displayed, calc_vars, cache_vars>>

\* Lines 488-544: fetch_data was called with the unique tickers of portfolio and
\* benchmark and returned got; the portfolio is filtered on what came back.
Fetched(tickers, got) ==
    /\ all_tickers_to_fetch' = tickers
    /\ fetched_df' = portfolio_df
    /\ raw_data' = got.data
    /\ invalid_tickers_fetch' = got.invalid
    /\ fetch_calls' = fetch_calls + 1
    /\ IF IsEmpty(got.data)
       THEN /\ msgs' = msgs \o got.msgs \o <<Error("no_valid_data")>>
            /\ valid_input' = FALSE
            /\ data_valid' = FALSE
            /\ benchmark_data_valid' = FALSE
            /\ UNCHANGED <<portfolio_df, rescaled>>
       ELSE LET f == FilterPortfolio(portfolio_df, got.data.columns)
                b == BenchmarkCheck(got.data, benchmark_ticker)
                w == IF got.invalid # {} THEN <<Warning("tickers_excluded")>> ELSE <<>>
            IN /\ msgs' = msgs \o got.msgs \o w \o f.msgs \o b.msgs
               /\ valid_input' = f.ok
               /\ data_valid' = f.ok
               /\ portfolio_df' = f.df
               /\ rescaled' = rescaled \o f.rescaled
               /\ benchmark_data_valid' = b.valid

\* Lines 483-544 in a request that finds nothing in the cache of fetch_data: the
\* download is made and cleaned.  (SpecCache follows the cache over several requests.)
Fetch ==
    /\ pc = "fetch"
    /\ LET tickers == Range(portfolio_df.Ticker) \cup {benchmark_ticker}
       IN \E raw \in PipelineRaws(tickers, benchmark_ticker)
                        \cup ExampleRaws(tickers, portfolio_df) :
          \E got \in {fetch_data(tickers, raw)} :
             /\ all_data' = raw
             /\ Fetched(tickers, got)
    /\ pc' = "calc"
    /\ UNCHANGED <<tickers_string, weights_string, benchmark_ticker, dates_ok, validated_df,
                   metrics, returns_len, shown, displayed, calc_vars, cache_vars>>

\* Lines 570-571
ConstantWarning(returns) ==
    IF StdBelowThreshold(returns.val) THEN <<Warning("constant_returns")>> ELSE <<>>

\* Lines 582-585
NearlyIdenticalWarning(pr, br) ==
    IF CorrelationNearOne(pr.val, br.val) THEN <<Warning("nearly_identical")>> ELSE <<>>

\* the two series on their common index, and what is reported about them
Aligned(pr, br) ==
    [raised |-> FALSE, portfolio |-> pr,
     benchmark |-> [scalar |-> FALSE, index |-> br.index, val |-> br.val],
     msgs |-> NearlyIdenticalWarning(pr, br)]

\* Lines 577-585: the series of the portfolio and the benchmark's b on the intersection
\* of their indexes; on the number that squeeze() made of a one-row frame, line 578
\* raises: a number has no attribute 'index'
AlignSeries(returns, b) ==
    IF b.scalar
    THEN [raised |-> TRUE, portfolio |-> returns, benchmark |-> b,
          msgs |-> <<Exception("AttributeError")>>]
    ELSE Aligned(Loc(returns, Intersection(returns.index, b.index)),
                 Loc(b, Intersection(returns.index, b.index)))

\* the warning of line 571 comes before what lines 573-587 report
AfterWarning(warning, series) == [series EXCEPT !.msgs = warning \o @]

\* Lines 569-587 for the portfolio's series returns
SeriesForMetrics(returns, table, bm, benchmark_valid) ==
    AfterWarning(ConstantWarning(returns),
                 IF benchmark_valid
                 THEN AlignSeries(returns, BenchmarkReturns(table, bm))
                 ELSE [raised |-> FALSE, portfolio |-> returns,
                       benchmark |-> NoBenchmarkSeries, msgs |-> <<>>])

\* Lines 552-587: the return series of the portfolio and of the benchmark, and the
\* messages of the stage in the order they are issued
ReturnSeries(table, df, bm, benchmark_valid) ==
    SeriesForMetrics(WeightedReturns(PortfolioReturnsData(table, df.Ticker),
                                     AlignedWeights(df, df.Ticker)),
                     table, bm, benchmark_valid)

\* Line 557: st.cache_data.clear() empties the cache of fetch_data
CacheCleared == {}

\* Line 710: the growth chart is drawn
GrowthDisplayed(pr, frame) == pr.index # <<>> /\ frame # EmptyFrame

\* Lines 622-906: what the three tabs display, and the notes they show in the place
\* of what they cannot display.  The metrics dict always has the benchmark's keys, so
\* line 682 tests benchmark_data_valid.
DisplayTabs(pr, frame, df, benchmark_valid) ==
    [tabs |-> {"metrics"}
                 \cup (IF GrowthDisplayed(pr, frame) THEN {"growth"} ELSE {})
                 \cup (IF df.Ticker # <<>> THEN {"allocation"} ELSE {}),
     msgs |-> (IF benchmark_valid THEN <<>>
               ELSE <<Warning("benchmark_metrics_unavailable")>>)
              \o (IF GrowthDisplayed(pr, frame) THEN <<>>
                  ELSE <<Info("insufficient_data")>>)
              \o (IF df.Ticker # <<>> THEN <<>> ELSE <<Info("no_allocation")>>)]

\* the values of the form's "Risk-Free Rate (%)" / 100 and "Initial Investment ($)"
FormValues ==
    {[risk_free_rate_input |-> Zero, initial_investment |-> 1],
     [risk_free_rate_input |-> <<1, 100>>, initial_investment |-> 1000]}

\* Lines 547-626: returns, growth curve, metrics and the result tabs, when the guard of
\* line 552 holds.  The risk-free rate and the initial investment of the form are read
\* here, where the script first uses them.
Calculate ==
    /\ pc = "calc"
    /\ IF valid_input /\ data_valid /\ portfolio_df.Ticker # <<>>
       THEN \E r \in {ReturnSeries(raw_data, portfolio_df, benchmark_ticker,
                                    benchmark_data_valid)} :
               /\ cache' = CacheCleared
               /\ portfolio_daily_returns' = r.portfolio
               /\ benchmark_daily_returns' = r.benchmark
               /\ \E form \in FormValues :
                     /\ risk_free_rate_input' = form.risk_free_rate_input
                     /\ initial_investment' = form.initial_investment
                     /\ IF r.raised
                        THEN /\ msgs' = msgs \o r.msgs
                             /\ UNCHANGED <<perf_df, returns_len, metrics, shown,
                                            displayed>>
                        ELSE /\ perf_df' = GrowthCurve(portfolio_daily_returns',
                                                       benchmark_daily_returns',
                                                       form.initial_investment,
                                                       benchmark_data_valid)
                             /\ returns_len' =
                                   [portfolio |-> Len(portfolio_daily_returns'.index),
                                    benchmark |-> Len(benchmark_daily_returns'.index)]
                             /\ metrics' =
                                   calculate_metrics(portfolio_daily_returns'.val,
                                                     benchmark_daily_returns'.val,
                                                     form.risk_free_rate_input)
                             /\ shown' = TRUE
                             /\ \E d \in {DisplayTabs(portfolio_daily_returns', perf_df',
                                                      portfolio_df,
                                                      benchmark_data_valid)} :
                                   /\ displayed' = d.tabs
                                   /\ msgs' = msgs \o r.msgs \o d.msgs
       ELSE UNCHANGED <<returns_len, metrics, shown, displayed, msgs, calc_vars, cache>>
    /\ pc' = "done"
    /\ UNCHANGED <<period, downloads, requested>>
    /\ UNCHANGED <<tickers_string, weights_string, benchmark_ticker, dates_ok, valid_input,
                   data_valid, portfolio_df, validated_df, fetched_df, all_tickers_to_fetch,
                   all_data, raw_data, invalid_tickers_fetch, benchmark_data_valid, fetch_calls, rescaled>>

\* A rerun of the script starts from the values of its first lines
ResetRequest ==
    /\ pc' = "idle"
    /\ tickers_string' = <<>>
    /\ weights_string' = <<>>
    /\ benchmark_ticker' = ""
    /\ dates_ok' = TRUE
    /\ valid_input' = TRUE
    /\ data_valid' = FALSE
    /\ portfolio_df' = EmptyPortfolio
    /\ validated_df' = EmptyPortfolio
    /\ fetched_df' = EmptyPortfolio
    /\ all_tickers_to_fetch' = {}
    /\ all_data' = NoDownload
    /\ msgs' = <<>>
    /\ raw_data' = NoTable
    /\ invalid_tickers_fetch' = {}
    /\ benchmark_data_valid' = FALSE
    /\ fetch_calls' = 0
    /\ rescaled' = <<>>
    /\ metrics' = NoMetrics
    /\ returns_len' = [portfolio |-> 0, benchmark |-> 0]
    /\ shown' = FALSE
    /\ displayed' = {}
    /\ risk_free_rate_input' = <<1, 100>>
    /\ initial_investment' = 10000
    /\ portfolio_daily_returns' = EmptySeries
    /\ benchmark_daily_returns' = NoBenchmarkSeries
    /\ perf_df' = EmptyFrame

\* The script has ended; the next submission reruns it from the top.
NewRequest ==
    /\ pc = "done"
    /\ ResetRequest
    /\ UNCHANGED cache_vars

Next == Validate \/ Guard \/ Fetch \/ Calculate \/ NewRequest

Spec == Init /\ [][Next]_vars

-----------------------------------------------------------------------------
\* fetch_data alone, on every download of the bounded shape

CleanerTickers == {{"A"}, {"A", "B"}, {"A", "B", "SPY"}}
CleanerPrices == {NaN, 1, 2}

\* Downloads of one more date for one or two tickers: a price can be missing between
\* an earlier and a later one on a date that another ticker keeps in the table
GapTables(tickers) ==
    IF Cardinality(tickers) <= 2 THEN RawTables(tickers, MaxDates + 1, CleanerPrices)
    ELSE {}

CleanerRaws(tickers) ==
    UNION {RawTables(tickers, n, CleanerPrices) \cup RawFailures(tickers, n)
               \cup PartialAdjTables(tickers, n)
               \cup (IF Cardinality(tickers) = 1 THEN FlatTables(n, CleanerPrices) ELSE {})
           : n \in 1..MaxDates}
        \cup GapTables(tickers)

InitFetchData ==
    /\ pc = "fetch_data"
    /\ all_tickers_to_fetch \in CleanerTickers
    /\ all_data \in CleanerRaws(all_tickers_to_fetch)
    /\ tickers_string = <<>>
    /\ weights_string = <<>>
    /\ benchmark_ticker = ""
    /\ dates_ok = TRUE
    /\ valid_input = TRUE
    /\ data_valid = FALSE
    /\ portfolio_df = EmptyPortfolio
    /\ validated_df = EmptyPortfolio
    /\ fetched_df = EmptyPortfolio
    /\ msgs = <<>>
    /\ raw_data = NoTable
    /\ invalid_tickers_fetch = {}
    /\ benchmark_data_valid = FALSE
    /\ fetch_calls = 0
    /\ rescaled = <<>>
    /\ metrics = NoMetrics
    /\ returns_len = [portfolio |-> 0, benchmark |-> 0]
    /\ shown = FALSE
    /\ displayed = {}
    /\ risk_free_rate_input = <<1, 100>>
    /\ initial_investment = 10000
    /\ portfolio_daily_returns = EmptySeries
    /\ benchmark_daily_returns = NoBenchmarkSeries
    /\ perf_df = EmptyFrame
    /\ period = DefaultPeriod
    /\ cache = {}
    /\ downloads = 0
    /\ requested = {}

\* One call of fetch_data(tickers, start, end) on the download all_data
FetchData ==
    /\ pc = "fetch_data"
    /\ LET got == fetch_data(all_tickers_to_fetch, all_data)
       IN /\ raw_data' = got.data
          /\ invalid_tickers_fetch' = got.invalid
          /\ msgs' = got.msgs
    /\ fetch_calls' = fetch_calls + 1
    /\ pc' = "returned"
    /\ UNCHANGED <<tickers_string, weights_string, benchmark_ticker, dates_ok, valid_input,
                   data_valid, portfolio_df, validated_df, fetched_df, all_tickers_to_fetch,
                   all_data, benchmark_data_valid, rescaled, metrics, returns_len, shown, displayed, calc_vars, cache_vars>>

SpecFetchData == InitFetchData /\ [][FetchData]_vars

-----------------------------------------------------------------------------
\* calculate_metrics as a function of its arguments: the series of returns of the
\* portfolio and of the benchmark and the risk-free rate.

MaxReturns == 3

\* daily returns: -200 %, -100 %, -50 %, 0 and 50 %
ReturnValues == {<<-2, 1>>, <<-1, 1>>, <<-1, 2>>, Zero, <<1, 2>>}
BenchmarkReturnValues == {<<-2, 1>>, <<1, 2>>}

\* ten equal returns; one return that takes 1 + total return to 1e-9 and to -1e-9; two
\* equal losses of 10 % and a gain of 50 %
ConstantLen == 10
ChosenReturns ==
    {[i \in 1..ConstantLen |-> c] : c \in {<<-1, 2>>, Zero, <<1, 2>>}}
        \cup {<< <<-999999999, 1000000000>> >>, << <<-1000000001, 1000000000>> >>,
              << <<-1, 10>>, <<-1, 10>>, <<1, 2>> >>}

SeriesOf(val) == [index |-> [i \in DOMAIN val |-> i], val |-> val]

InitMetrics ==
    /\ pc = "calculate_metrics"
    /\ portfolio_daily_returns \in
          {SeriesOf(val) : val \in SeqsUpTo(ReturnValues, MaxReturns) \cup ChosenReturns}
    /\ benchmark_daily_returns \in
          {[scalar |-> FALSE] @@ SeriesOf(val) :
              val \in SeqsUpTo(BenchmarkReturnValues, 2)}
    /\ risk_free_rate_input \in {Zero, <<1, 100>>}
    /\ initial_investment = 10000
    /\ perf_df = EmptyFrame
    /\ period = DefaultPeriod
    /\ cache = {}
    /\ downloads = 0
    /\ requested = {}
    /\ all_tickers_to_fetch = {}
    /\ all_data = NoDownload
    /\ tickers_string = <<>>
    /\ weights_string = <<>>
    /\ benchmark_ticker = ""
    /\ dates_ok = TRUE
    /\ valid_input = TRUE
    /\ data_valid = TRUE
    /\ portfolio_df = EmptyPortfolio
    /\ validated_df = EmptyPortfolio
    /\ fetched_df = EmptyPortfolio
    /\ msgs = <<>>
    /\ raw_data = NoTable
    /\ invalid_tickers_fetch = {}
    /\ benchmark_data_valid = FALSE
    /\ fetch_calls = 0
    /\ rescaled = <<>>
    /\ metrics = NoMetrics
    /\ returns_len = [portfolio |-> 0, benchmark |-> 0]
    /\ shown = FALSE
    /\ displayed = {}

\* One call of calculate_metrics(portfolio_returns, benchmark_returns, risk_free_rate)
CalculateMetrics ==
    /\ pc = "calculate_metrics"
    /\ metrics' = calculate_metrics(portfolio_daily_returns.val,
                                    benchmark_daily_returns.val, risk_free_rate_input)
    /\ returns_len' = [portfolio |-> Len(portfolio_daily_returns.index),
                       benchmark |-> Len(benchmark_daily_returns.index)]
    /\ pc' = "returned"
    /\ UNCHANGED <<tickers_string, weights_string, benchmark_ticker, dates_ok, valid_input,
                   data_valid, portfolio_df, validated_df, fetched_df, all_tickers_to_fetch,
                   all_data, raw_data, invalid_tickers_fetch, benchmark_data_valid,
                   fetch_calls, rescaled, msgs, shown, displayed, calc_vars, cache_vars>>

SpecMetrics == InitMetrics /\ [][CalculateMetrics]_vars

-----------------------------------------------------------------------------
\* The cache of fetch_data over a sequence of requests

\* Line 132: ttl=3600, seconds
ttl == 3600

\* The arguments of fetch_data, which st.cache_data hashes into the key of the entry
Key(tickers, dates) == <<tickers, dates>>

\* Back-test periods the form is submitted with
CachePeriods == {DefaultPeriod, <<"2023-01-01", "2023-07-01">>}

\* Portfolios the form is submitted with; the benchmark is SPY
CachePortfolios ==
    {[tickers_string |-> <<"A">>, weights_string |-> <<"100">>],
     [tickers_string |-> <<"A", " B">>, weights_string |-> <<"30", "40">>]}

\* yf.download returns a full history of every ticker, or nothing
CacheRaws(tickers) ==
    {RawTable(TRUE, {"Adj Close", "Close"}, MaxDates + 1,
              [t \in tickers |-> [i \in 1..MaxDates + 1 |-> IF i = 1 THEN 1 ELSE 2]],
              [t \in tickers |-> [i \in 1..MaxDates + 1 |-> IF i = 1 THEN 1 ELSE 2]]),
     [NoDownload EXCEPT !.kind = "empty"]}

InitCache == Init

\* "Run Analysis" is pressed with valid dates (line 381); section 1 runs.
SubmitCached ==
    /\ pc = "idle"
    /\ \E p \in CachePortfolios, dates \in CachePeriods :
          \E r \in {ValidateInput(p.tickers_string, p.weights_string, "SPY", TRUE)} :
             /\ tickers_string' = p.tickers_string
             /\ weights_string' = p.weights_string
             /\ benchmark_ticker' = "SPY"
             /\ dates_ok' = TRUE
             /\ period' = dates
             /\ valid_input' = r.valid
             /\ portfolio_df' = r.df
             /\ validated_df' = r.df
             /\ msgs' = r.msgs
             /\ rescaled' = r.rescaled
    /\ pc' = "guard"
    /\ UNCHANGED <<fetched_df, all_tickers_to_fetch, all_data, data_valid, raw_data,
                   invalid_tickers_fetch, benchmark_data_valid, fetch_calls, metrics,
                   returns_len, shown, displayed, calc_vars, cache, downloads,
                   requested>>

\* Lines 483-544 with the decorator of line 132: an entry of the cache under the key
\* of the call is returned without running fetch_data; otherwise fetch_data runs, makes
\* its one call of yf.download (line 140), and what it returns is stored.
FetchCached ==
    /\ pc = "fetch"
    /\ LET tickers == Range(portfolio_df.Ticker) \cup {benchmark_ticker}
           hits == {e \in cache : e.key = Key(tickers, period)}
       IN IF hits # {}
          THEN \E e \in hits :
                  /\ Fetched(tickers, e.value)
                  /\ UNCHANGED <<all_data, cache, downloads>>
          ELSE \E raw \in CacheRaws(tickers) :
               \E got \in {fetch_data(tickers, raw)} :
                  /\ all_data' = raw
                  /\ downloads' = downloads + 1
                  /\ cache' = cache \cup {[key |-> Key(tickers, period), value |-> got,
                                            age |-> 0]}
                  /\ Fetched(tickers, got)
    /\ pc' = "calc"
    /\ UNCHANGED <<tickers_string, weights_string, benchmark_ticker, dates_ok, validated_df,
                   metrics, returns_len, shown, displayed, calc_vars, period, requested>>

\* The script has ended.  A request that called fetch_data is remembered with the key
\* of its call.
NextRequest ==
    /\ pc = "done"
    /\ ResetRequest
    /\ requested' =
          IF fetch_calls > 0
          THEN {q \in requested : q.key # Key(all_tickers_to_fetch, period)}
                  \cup {[key |-> Key(all_tickers_to_fetch, period), age |-> 0]}
          ELSE requested
    /\ downloads' = 0
    /\ UNCHANGED <<period, cache>>

\* Half of the time-to-live passes between two requests; entries as old as ttl are
\* gone from the cache (and requests that old are no longer remembered).
Tick ==
    /\ pc = "idle"
    /\ cache # {} \/ requested # {}
    /\ cache' = {[e EXCEPT !.age = e.age + ttl \div 2] :
                    e \in {x \in cache : x.age + ttl \div 2 < ttl}}
    /\ requested' = {[q EXCEPT !.age = q.age + ttl \div 2] :
                        q \in {x \in requested : x.age + ttl \div 2 < ttl}}
    /\ UNCHANGED <<pc, tickers_string, weights_string, benchmark_ticker, dates_ok,
                   valid_input, data_valid, portfolio_df, validated_df, fetched_df,
                   all_tickers_to_fetch, all_data, msgs, raw_data, invalid_tickers_fetch,
                   benchmark_data_valid, fetch_calls, rescaled, metrics, returns_len,
                   shown, displayed, calc_vars, period, downloads>>

NextCache == SubmitCached \/ Guard \/ FetchCached \/ Calculate \/ NextRequest \/ Tick

SpecCache == InitCache /\ [][NextCache]_vars
-----------------------------------------------------------------------------
\* Properties

\* The allocation the return computation uses: portfolio_df when line 552 holds
UsedForReturns == pc = "done" /\ shown

\* |sum(weights) - 100| <= 1e-06
SumWithinMillionth(df) == Abs(SeqSum(df.Weight) - 100 * df.Den) <= df.Den \div 1000000

\* C1: in every request whose allocation passes validation, the weights of the
\* allocation used for return computation sum to 100.0 within 1e-6.
C1_WeightsSumTo100 == UsedForReturns => SumWithinMillionth(portfolio_df)

\* C4: the allocation handed to the fetch and return-computation stages has pairwise
\* distinct identifiers.
C4_IdentifiersDistinct ==
    pc \in {"fetch", "calc"} \/ UsedForReturns =>
        \A i, j \in DOMAIN portfolio_df.Ticker :
            portfolio_df.Ticker[i] = portfolio_df.Ticker[j] => i = j
\* The validation rules 1-4 of the specification, read off the submitted strings
InTickers == StripPieces(tickers_string)
InWeights == StripPieces(weights_string)
InNumeric == \A i \in DOMAIN InWeights : IsNumeric(InWeights[i])
InParsed == [i \in DOMAIN InWeights |-> ParseFloat(InWeights[i])]
ParseRuleViolated == InTickers = <<>> \/ InWeights = <<>> \/ ~InNumeric
CountRuleViolated == Len(InTickers) # Len(InWeights)
NegativeRuleViolated ==
    \E i \in DOMAIN InWeights : IsNumeric(InWeights[i]) /\ ParseFloat(InWeights[i]) < 0
\* |sum| <= 1e-08
ZeroSumRuleViolated ==
    InWeights # <<>> /\ InNumeric /\ Abs(SeqSum(InParsed)) <= WeightScale \div 100000000

EarliestViolatedRule ==
    IF ParseRuleViolated THEN 1
    ELSE IF CountRuleViolated THEN 2
    ELSE IF NegativeRuleViolated THEN 3
    ELSE IF ZeroSumRuleViolated THEN 4
    ELSE 0

RuleOf(id) ==
    CASE id \in {"tickers_empty", "weights_empty", "weights_numeric"} -> 1
      [] id = "mismatch" -> 2
      [] id = "negative" -> 3
      [] id = "total_zero" -> 4
      [] OTHER -> 0

\* positions in msgs of the errors of rules 1-4
RuleErrors == {i \in DOMAIN msgs : msgs[i][1] = "error" /\ RuleOf(msgs[i][2]) # 0}

\* C2 as stated: an input that violates one or several of the rules gets exactly one
\* validation error, that of the earliest violated rule, and no allocation (stated
\* here for the inputs whose dates and benchmark are valid).
C2_ExactlyOneError ==
    pc = "guard" /\ dates_ok /\ benchmark_ticker # "" /\ EarliestViolatedRule # 0 =>
        /\ Cardinality(RuleErrors) = 1
        /\ \A i \in RuleErrors : RuleOf(msgs[i][2]) = EarliestViolatedRule
        /\ validated_df = EmptyPortfolio

\* C2 amended: only errors of the earliest violated rule are reported and no allocation
\* is produced; with valid dates and benchmark at least one is reported, and exactly
\* one unless the ticker list is empty after trimming and the weight string is empty,
\* when both empty-list errors of rule 1 are reported.
C2_EarliestRuleWins ==
    pc = "guard" /\ EarliestViolatedRule # 0 =>
        /\ \A i \in RuleErrors : RuleOf(msgs[i][2]) = EarliestViolatedRule
        /\ validated_df = EmptyPortfolio
        /\ ~valid_input
        /\ dates_ok /\ benchmark_ticker # "" =>
              Cardinality(RuleErrors) =
                  IF InTickers = <<>> /\ weights_string = <<>> THEN 2 ELSE 1

\* a count mismatch together with a negative weight: the mismatch alone is reported
C2_Witness ==
    /\ pc = "guard"
    /\ EarliestViolatedRule = 2
    /\ NegativeRuleViolated
    /\ msgs = <<Error("mismatch")>>
\* a / b in lowest terms (b > 0)
Reduced(a, b) == <<a \div GCD(a, b), b \div GCD(a, b)>>

HasMsg(m) == m \in Range(msgs)
NoErrors == \A i \in DOMAIN msgs : msgs[i][1] # "error"

\* |s / den - 100| <= 1e-08 + 1e-05 * 100, the tolerance np.isclose gives the value 100
WithinIscloseOf100(s, den) ==
    LET a == Abs(s - 100 * den)
    IN a <= den /\ 1000 * a - den <= den \div 100000

\* s / den <= 1e-08
AtMostZeroTolerance(s, den) == s <= den \div 100000000

\* C3: the benchmark guard, where the benchmark is among the validated identifiers
GuardDone == pc = "fetch" \/ (pc = "done" /\ fetch_calls = 0)
BenchmarkInPortfolio == benchmark_ticker \in Range(validated_df.Ticker)
NonBenchmark == {i \in DOMAIN validated_df.Ticker : validated_df.Ticker[i] # benchmark_ticker}
NonBenchmarkTickers == SelectSeqIdx(validated_df.Ticker, NonBenchmark)
NonBenchmarkWeights == SelectSeqIdx(validated_df.Weight, NonBenchmark)

\* C3 as stated: the guard fails if and only if the removal leaves no identifier, and
\* otherwise yields an allocation without the benchmark that sums to 100.
C3_FailsOnlyWhenEmpty ==
    GuardDone /\ BenchmarkInPortfolio =>
        /\ ~valid_input <=> NonBenchmark = {}
        /\ valid_input =>
              /\ benchmark_ticker \notin Range(portfolio_df.Ticker)
              /\ SeqSum(portfolio_df.Weight) = 100 * portfolio_df.Den

\* C3 amended: the guard removes the benchmark and rescales the remaining weights to
\* sum to 100; it fails if and only if the removal leaves no identifier
\* (empty-portfolio error) or the remaining weights sum to approximately zero
\* (zero-sum error), and otherwise yields an allocation without the benchmark.
C3_GuardRemovesBenchmark ==
    GuardDone /\ BenchmarkInPortfolio =>
        /\ HasMsg(Warning("benchmark_in_portfolio"))
        /\ HasMsg(Error("empty_after_benchmark")) <=> NonBenchmark = {}
        /\ HasMsg(Error("zero_after_benchmark")) <=>
              /\ NonBenchmark # {}
              /\ AtMostZeroTolerance(SeqSum(NonBenchmarkWeights), validated_df.Den)
        /\ ~valid_input <=>
              \/ HasMsg(Error("empty_after_benchmark"))
              \/ HasMsg(Error("zero_after_benchmark"))
        /\ valid_input =>
              /\ portfolio_df.Ticker = NonBenchmarkTickers
              /\ benchmark_ticker \notin Range(portfolio_df.Ticker)
              /\ SeqSum(portfolio_df.Weight) = 100 * portfolio_df.Den
              /\ \A k \in DOMAIN portfolio_df.Weight :
                    Reduced(portfolio_df.Weight[k], portfolio_df.Den) =
                        Reduced((NonBenchmarkWeights[k] \div SeqGCD(NonBenchmarkWeights)) * 100,
                                SeqSum(NonBenchmarkWeights) \div SeqGCD(NonBenchmarkWeights))

\* the benchmark was removed and an allocation is left
C3_Witness ==
    /\ pc = "fetch"
    /\ BenchmarkInPortfolio
    /\ portfolio_df.Ticker = <<"A">>
    /\ validated_df.Ticker = <<"SPY", "A">>

\* C5: what the dropout of identifiers does to the allocation the fetch was called with
PostFetch == pc \in {"calc", "done"} /\ fetch_calls = 1 /\ ~raw_data.none
Survivors == {i \in DOMAIN fetched_df.Ticker : fetched_df.Ticker[i] \in raw_data.columns}
SurvivorTickers == SelectSeqIdx(fetched_df.Ticker, Survivors)
SurvivorWeights == SelectSeqIdx(fetched_df.Weight, Survivors)
SurvivorSum == SeqSum(SurvivorWeights)
Dropout == Survivors # DOMAIN fetched_df.Ticker
\* the calculation stage ended on the exception of line 578
StageRaised == \E i \in DOMAIN msgs : msgs[i] = Exception("AttributeError")

BenchmarkRejected ==
    /\ pc = "done"
    /\ fetch_calls = 1
    /\ ~raw_data.none
    /\ benchmark_ticker \notin raw_data.columns
    /\ Survivors # {}

\* C6 as stated: then no error is raised, the benchmark series is empty, the benchmark
\* metrics are NaN and the portfolio metrics are computed (calculate_metrics has run and
\* the results are shown).
C6_BenchmarkNeverAborts ==
    BenchmarkRejected =>
        /\ NoErrors
        /\ shown
        /\ returns_len.benchmark = 0
        /\ metrics.benchmark = "nan"
        /\ metrics.portfolio # "none"

\* C6 amended: if the benchmark column is rejected and at least one portfolio
\* identifier has data and the surviving portfolio weights do not sum to approximately
\* zero, then no error is raised, the benchmark series is empty, every benchmark metric
\* is NaN, and the portfolio metrics are computed from the portfolio return series
\* (all NaN only if the cleaned table has a single date, so that the series is empty).
C6_BenchmarkUnavailable ==
    BenchmarkRejected /\ ~AtMostZeroTolerance(SurvivorSum, fetched_df.Den) =>
        /\ NoErrors
        /\ HasMsg(Warning("benchmark_unavailable"))
        /\ shown
        /\ ~benchmark_data_valid
        /\ returns_len.benchmark = 0
        /\ metrics.benchmark = "nan"
        /\ returns_len.portfolio = Len(raw_data.index) - 1
        /\ metrics.portfolio = IF Len(raw_data.index) >= 2 THEN "computed" ELSE "nan"

C6_Witness ==
    /\ BenchmarkRejected
    /\ shown
    /\ metrics.portfolio = "computed"
    /\ metrics.benchmark = "nan"

\* C7: every rescaling of the allocation's weights has its notice among the messages
\* of the request: the initial normalization (weights differ from the parsed ones), the
\* benchmark removal (the allocation after the guard differs from the validated one),
\* the dropout renormalization (the survivors' weights differ from those the fetch was
\* called with); msgs only grows, so the notice is there when the results are shown.
InitiallyRescaled ==
    /\ pc \in {"guard", "fetch", "calc", "done"}
    /\ validated_df.Ticker # <<>>
    /\ \E i \in DOMAIN validated_df.Weight :
          Reduced(validated_df.Weight[i], validated_df.Den) # Reduced(InParsed[i], WeightScale)
GuardRescaled ==
    \/ pc = "fetch" /\ portfolio_df # validated_df
    \/ pc \in {"calc", "done"} /\ fetch_calls = 1 /\ fetched_df # validated_df
DropoutRescaled ==
    /\ PostFetch
    /\ valid_input
    /\ Canon(portfolio_df.Weight, portfolio_df.Den) # Canon(SurvivorWeights, fetched_df.Den)

C7_RescalingReported ==
    /\ InitiallyRescaled \/ "initial" \in Range(rescaled) => HasMsg(Info("normalized"))
    /\ GuardRescaled \/ "benchmark" \in Range(rescaled) =>
          HasMsg(Warning("benchmark_in_portfolio"))
    /\ DropoutRescaled \/ "dropout" \in Range(rescaled) => HasMsg(Info("renormalizing"))

C7_Witness ==
    /\ pc = "done"
    /\ shown
    /\ InitiallyRescaled
    /\ DropoutRescaled
    /\ rescaled = <<"initial", "dropout">>

\* C8: an allocation that is already normalized (no rule violated, no negative
\* weight, the weights sum to 100, the benchmark not among the identifiers) comes out
\* of validation and of the benchmark guard with the same identifiers and the same
\* weights in the same order, and without any message.
AlreadyNormalized ==
    /\ dates_ok /\ benchmark_ticker # ""
    /\ EarliestViolatedRule = 0
    /\ SeqSum(InParsed) = 100 * WeightScale
    /\ benchmark_ticker \notin Range(InTickers)

SameAsSubmitted(df) ==
    /\ df.Ticker = InTickers
    /\ DOMAIN df.Weight = DOMAIN InParsed
    /\ \A i \in DOMAIN df.Weight :
          Reduced(df.Weight[i], df.Den) = Reduced(InParsed[i], WeightScale)

C8_ValidationIdempotent ==
    pc \in {"guard", "fetch"} /\ AlreadyNormalized =>
        /\ valid_input
        /\ msgs = <<>>
        /\ rescaled = <<>>
        /\ SameAsSubmitted(validated_df)
        /\ pc = "fetch" => portfolio_df = validated_df

C8_Witness ==
    /\ pc = "fetch"
    /\ AlreadyNormalized
    /\ Len(InTickers) = 2
    /\ SameAsSubmitted(portfolio_df)

\* C9: non-negative parsed weights whose sum is neither approximately 0 nor
\* approximately 100 (np.isclose) are each replaced by w * 100 / sum, with no error
\* and with the normalization notice; 40 and 30 become 57.14 and 42.86 within 0.01.
NeedsNormalization ==
    /\ dates_ok /\ benchmark_ticker # ""
    /\ EarliestViolatedRule = 0
    /\ ~WithinIscloseOf100(SeqSum(InParsed), WeightScale)

\* |w / den - x / 100| <= 0.01
WithinHundredthOf(w, den, x) == Abs(100 * w - x * den) <= den

C9_NormalizedBy100OverSum ==
    pc = "guard" /\ NeedsNormalization =>
        /\ valid_input
        /\ NoErrors
        /\ HasMsg(Info("normalized"))
        /\ validated_df.Ticker = InTickers
        /\ DOMAIN validated_df.Weight = DOMAIN InParsed
        /\ \A i \in DOMAIN InParsed :
              Reduced(validated_df.Weight[i], validated_df.Den) =
                  Reduced((InParsed[i] \div SeqGCD(InParsed)) * 100,
                          SeqSum(InParsed) \div SeqGCD(InParsed))
        /\ weights_string = <<"40", "30">> =>
              /\ WithinHundredthOf(validated_df.Weight[1], validated_df.Den, 5714)
              /\ WithinHundredthOf(validated_df.Weight[2], validated_df.Den, 4286)

C9_Witness ==
    /\ pc = "guard"
    /\ NeedsNormalization
    /\ weights_string = <<"40", "30">>
    /\ msgs = <<Info("normalized")>>
    /\ validated_df.Weight = <<400, 300>>
    /\ validated_df.Den = 7

\* C10: every table fetch_data returns has no missing value in any column, and every
\* column runs over the one date index of the table.
C10_CleanedTableComplete ==
    pc = "returned" /\ ~raw_data.none =>
        /\ raw_data.columns # {}
        /\ raw_data.index # <<>>
        /\ DOMAIN raw_data.val = raw_data.columns
        /\ \A c \in raw_data.columns :
              /\ DOMAIN raw_data.val[c] = DOMAIN raw_data.index
              /\ \A i \in DOMAIN raw_data.val[c] : raw_data.val[c][i] # NaN

\* a table came back although a surviving column had gaps at its start and its end
C10_Witness ==
    /\ pc = "returned"
    /\ ~raw_data.none
    /\ all_data.multi
    /\ "Adj Close" \in all_data.fields
    /\ \E c \in raw_data.columns :
          /\ all_data.adj[c][1] = NaN
          /\ \E i \in DOMAIN all_data.adj[c] : i > 1 /\ all_data.adj[c][i] # NaN
    /\ \E c \in raw_data.columns :
          /\ all_data.adj[c][1] # NaN
          /\ all_data.adj[c][Len(all_data.adj[c])] = NaN

\* C11: the price column the specification selects for an identifier: its adjusted
\* close, its raw close when it has no adjusted close, none when it has neither
HasAdjClose(t) == "Adj Close" \in all_data.fields /\ t \in DOMAIN all_data.adj
HasClose(t) == "Close" \in all_data.fields /\ t \in DOMAIN all_data.close
\* a column without a single price
EntirelyMissing(col) == \A i \in DOMAIN col : col[i] = NaN

\* C11 as stated: an identifier without an adjusted-close column is served from its
\* raw close column: when that column holds a price the identifier is a column of the
\* returned table, with the raw close prices where they are present, and is not rejected.
C11_FallbackPerIdentifier ==
    pc = "returned" /\ all_data.kind = "table" /\ all_data.multi =>
        \A t \in all_tickers_to_fetch :
            ~HasAdjClose(t) /\ HasClose(t) /\ ~EntirelyMissing(all_data.close[t]) =>
                /\ ~raw_data.none
                /\ t \in raw_data.columns
                /\ t \notin invalid_tickers_fetch

\* C12: the price table fetch_data cleans is the download's 'Adj Close' field, or its
\* 'Close' field when the download has no 'Adj Close'; a flat download has one column
PriceField == IF "Adj Close" \in all_data.fields THEN all_data.adj ELSE all_data.close
PriceColumnMissing(t) ==
    IF all_data.multi
    THEN t \notin DOMAIN PriceField \/ EntirelyMissing(PriceField[t])
    ELSE \A f \in DOMAIN PriceField : EntirelyMissing(PriceField[f])

\* C12: when fetch_data returns a table, the rejected list and the table's columns
\* partition the requested identifiers (an identifier is rejected if and only if it is
\* not a column of the table), and an identifier is rejected exactly when its entire
\* column of the price table is missing.
C12_RejectedPartition ==
    pc = "returned" /\ ~raw_data.none =>
        /\ raw_data.columns \cup invalid_tickers_fetch = all_tickers_to_fetch
        /\ raw_data.columns \cap invalid_tickers_fetch = {}
        /\ \A t \in all_tickers_to_fetch :
              /\ t \in invalid_tickers_fetch <=> t \notin raw_data.columns
              /\ t \in invalid_tickers_fetch <=> PriceColumnMissing(t)

\* a table came back with one identifier rejected and with a kept column that has a gap
C12_Witness ==
    /\ pc = "returned"
    /\ ~raw_data.none
    /\ all_data.multi
    /\ invalid_tickers_fetch = {"B"}
    /\ raw_data.columns = {"A", "SPY"}
    /\ \E i \in DOMAIN PriceField["A"] : PriceField["A"][i] = NaN

\* C13: the whole fetch has failed when fetch_data has run and returned no table or an
\* empty one
WholeFetchFailed ==
    /\ pc \in {"calc", "done"}
    /\ fetch_calls = 1
    /\ (raw_data.none \/ raw_data.columns = {} \/ raw_data.index = <<>>)

\* C13: a failure of the whole data fetch (the download raises, returns no data, or
\* cleaning leaves an empty table) aborts the run: the error "Could not fetch valid data
\* for any tickers" is reported, and no return series, growth curve or metrics are
\* computed or shown.
C13_WholeFetchFailureAborts ==
    WholeFetchFailed =>
        /\ Error("no_valid_data") \in Range(msgs)
        /\ ~valid_input
        /\ portfolio_daily_returns = EmptySeries
        /\ benchmark_daily_returns = NoBenchmarkSeries
        /\ perf_df = EmptyFrame
        /\ metrics = NoMetrics
        /\ ~shown

\* the run has ended after a download whose cleaning left no column
C13_Witness ==
    /\ WholeFetchFailed
    /\ pc = "done"
    /\ all_data.kind \notin {"raise", "empty"}
    /\ Error("no_valid_data") \in Range(msgs)

\* C14: the calculation stage has run on the table raw_data and the allocation
\* portfolio_df, the allocation as the dropout handling left it
Calculated ==
    /\ pc = "done"
    /\ fetch_calls = 1
    /\ valid_input /\ data_valid
    /\ portfolio_df.Ticker # <<>>

\* sum over the rows c of the allocation of
\* (weight[c] / 100) * (price[c, t] / price[c, t - 1] - 1)
WeightedSumOfReturns(t) ==
    LET tickers == portfolio_df.Ticker
        price(c, d) == raw_data.val[tickers[c]][d]
        F[c \in 0..Len(tickers)] ==
            IF c = 0 THEN Zero
            ELSE RatAdd(F[c - 1],
                        Rat(portfolio_df.Weight[c] * (price(c, t) - price(c, t - 1)),
                            100 * portfolio_df.Den * price(c, t - 1)))
    IN F[Len(tickers)]

\* C14: for every cleaned price table and allocation, the portfolio return at each date t
\* after the first is the sum over the surviving identifiers of (weight / 100) *
\* (price[c, t] / price[c, t - 1] - 1) with the latest weights, and the first date has no
\* return.
C14_PortfolioReturnIsWeightedSum ==
    Calculated =>
        /\ portfolio_daily_returns.index = Tail(raw_data.index)
        /\ \A k \in DOMAIN portfolio_daily_returns.index :
              portfolio_daily_returns.val[k] = WeightedSumOfReturns(k + 1)

\* the example: weights 50 / 50, returns 1 %, -2 % of A and
\* 2 %, 0 % of B give the portfolio returns 1.5 % and -1 %
C14_Witness ==
    /\ Calculated
    /\ portfolio_df = [Ticker |-> <<"A", "B">>, Weight |-> <<50, 50>>, Den |-> 1]
    /\ PctChange(raw_data.val["A"]) = <<RatNaN, Rat(1, 100), Rat(-2, 100)>>
    /\ PctChange(raw_data.val["B"]) = <<RatNaN, Rat(2, 100), Rat(0, 100)>>
    /\ portfolio_daily_returns.val = <<Rat(15, 1000), Rat(-1, 100)>>

\* C15: calculate_metrics was called with the two series
PassedToMetrics == Calculated /\ metrics # NoMetrics

\* the dates, in order, on which the benchmark and a column of the allocation both have
\* a return: a price on the date and on the date before it
HasReturn(t, i) == i > 1 /\ raw_data.val[t][i] # NaN /\ raw_data.val[t][i - 1] # NaN
CommonDates ==
    SelectSeqIdx(raw_data.index,
                 {i \in DOMAIN raw_data.index :
                     /\ HasReturn(benchmark_ticker, i)
                     /\ \E k \in DOMAIN portfolio_df.Ticker :
                           HasReturn(portfolio_df.Ticker[k], i)})

\* C15: whenever the benchmark series is not empty, the portfolio and benchmark return
\* series passed to calculate_metrics have the same date index and the same length;
\* when the benchmark is valid that index is the dates the two series have in common,
\* every date of only one series dropped.
C15_SeriesAligned ==
    PassedToMetrics =>
        /\ benchmark_daily_returns.index # <<>> =>
              /\ portfolio_daily_returns.index = benchmark_daily_returns.index
              /\ Len(portfolio_daily_returns.val) = Len(benchmark_daily_returns.val)
        /\ benchmark_data_valid =>
              /\ portfolio_daily_returns.index = CommonDates
              /\ benchmark_daily_returns.index = CommonDates

\* the two series of the three-date table were aligned and passed on
C15_Witness ==
    /\ PassedToMetrics
    /\ benchmark_data_valid
    /\ Len(benchmark_daily_returns.index) = 2
    /\ portfolio_daily_returns.index = benchmark_daily_returns.index
    /\ portfolio_daily_returns.val # benchmark_daily_returns.val

\* C16 to C20: calculate_metrics has filled the portfolio metrics from the series
\* portfolio_daily_returns and the rate risk_free_rate_input
MetricsComputed == metrics.portfolio = "computed"

\* base = 1 + total return, from the total return that is reported in percent
ReportedBase ==
    RatAdd(One, RatDiv(metrics.values.total_portfolio_return.val, <<100, 1>>))

\* years = n / 252
ReportedYears == Rat(Len(portfolio_daily_returns.val), 252)

\* the annualized return as the statement defines it, times what it is reported in:
\* base ^ (1 / years) - 1 for a positive base, -100 % for a base of approximately 0,
\* undefined for a negative base
StatedAnnualizedReturn(times) ==
    IF RatLess(Zero, ReportedBase) THEN Cagr(ReportedBase, ReportedYears, times)
    ELSE IF Abs(ReportedBase[1]) <= ReportedBase[2] \div 100000000 THEN Num(<<-times, 1>>)
    ELSE NaNValue

\* the reported volatility, not in percent
ReportedVolatility ==
    LET v == metrics.values.annualized_portfolio_volatility
    IN IF v.tag = "nan" THEN v ELSE [v EXCEPT !.times = 1]

VolatilityIsZero ==
    LET v == metrics.values.annualized_portfolio_volatility
    IN v.tag = "std" /\ v.dev.ss = 0

\* C16 as stated: the Sharpe ratio is undefined whenever the annualized volatility is 0
\* or the annualized return is undefined, and is (annualized return - risk-free rate) /
\* annualized volatility otherwise; so it is undefined for every series with a negative
\* base, and for ten equal returns the volatility is 0 and the ratio undefined.
C16_SharpeUndefinedOrRatio ==
    MetricsComputed =>
        /\ metrics.values.portfolio_sharpe_ratio =
              IF VolatilityIsZero \/ StatedAnnualizedReturn(1).tag = "nan" THEN NaNValue
              ELSE Ratio(StatedAnnualizedReturn(1), risk_free_rate_input, ReportedVolatility)
        /\ RatLess(ReportedBase, Zero) => metrics.values.portfolio_sharpe_ratio = NaNValue
        /\ (/\ Len(portfolio_daily_returns.val) = ConstantLen
            /\ \A i \in DOMAIN portfolio_daily_returns.val :
                  portfolio_daily_returns.val[i] = portfolio_daily_returns.val[1])
              => VolatilityIsZero /\ metrics.values.portfolio_sharpe_ratio = NaNValue

\* C17: for a series of n > 0 returns with base = 1 + total return, the reported
\* annualized return is base ^ (252 / n) - 1 when base > 0, -100 % when base is
\* approximately 0 and undefined when base < 0; it is undefined for an empty series
\* (years = 0).
C17_AnnualizedReturnCases ==
    /\ MetricsComputed =>
          /\ Len(portfolio_daily_returns.val) > 0
          /\ metrics.values.annualized_portfolio_return = StatedAnnualizedReturn(100)
    /\ metrics.portfolio = "nan" =>
          /\ Len(portfolio_daily_returns.val) = 0
          /\ metrics.values.annualized_portfolio_return = NaNValue

\* a loss that takes the base just below 0 is reported as -100 %
C17_Witness ==
    /\ MetricsComputed
    /\ RatLess(ReportedBase, Zero)
    /\ metrics.values.annualized_portfolio_return = Num(<<-100, 1>>)

\* the positions of the negative returns
Losses == {i \in DOMAIN portfolio_daily_returns.val : portfolio_daily_returns.val[i][1] < 0}
LossesAllEqual ==
    \A i, j \in Losses : portfolio_daily_returns.val[i] = portfolio_daily_returns.val[j]
ExceedsRiskFreeRate == ExceedsRiskFree(StatedAnnualizedReturn(1), risk_free_rate_input)

\* C18 as stated: when the downside deviation is 0 (no negative return, or two or more
\* negative returns that are all equal) and the annualized return exceeds the risk-free
\* rate, the Sortino ratio is +infinity.
C18_SortinoInfiniteAtZeroDeviation ==
    MetricsComputed /\ Cardinality(Losses) # 1 /\ LossesAllEqual /\ ExceedsRiskFreeRate =>
        metrics.values.portfolio_sortino_ratio = Inf

\* C18 amended: when there is no negative return and the annualized return exceeds the
\* risk-free rate, the Sortino ratio is +infinity; when there are two or more negative
\* returns and their standard deviation is 0, it is undefined.
C18_SortinoInfiniteWithoutLosses ==
    MetricsComputed =>
        /\ Losses = {} /\ ExceedsRiskFreeRate =>
              metrics.values.portfolio_sortino_ratio = Inf
        /\ Cardinality(Losses) >= 2 /\ LossesAllEqual =>
              metrics.values.portfolio_sortino_ratio = NaNValue

\* two equal losses, an annualized return above the risk-free rate, no Sortino ratio
C18_Witness ==
    /\ MetricsComputed
    /\ Cardinality(Losses) >= 2 /\ LossesAllEqual
    /\ ExceedsRiskFreeRate
    /\ metrics.values.portfolio_sortino_ratio = NaNValue

\* the downside deviation: the standard deviation of the negative returns, annualized
DownsideDeviation ==
    Std(SelectSeqIdx(portfolio_daily_returns.val, Losses))

\* C19 as stated: without a negative return the Sortino ratio is +infinity when the
\* annualized return exceeds the risk-free rate and 0 otherwise; with negative returns
\* it is (annualized return - risk-free rate) / downside deviation, and undefined when
\* the downside deviation is 0.
C19_SortinoCases ==
    MetricsComputed =>
        metrics.values.portfolio_sortino_ratio =
            IF Losses = {} THEN (IF ExceedsRiskFreeRate THEN Inf ELSE Num(Zero))
            ELSE IF ~DownsideDeviation.nan /\ DownsideDeviation.ss = 0 THEN NaNValue
            ELSE Ratio(StatedAnnualizedReturn(1), risk_free_rate_input,
                       Annualized(DownsideDeviation, 1))

\* cumulative wealth never falls below an earlier value of it
NeverBelowRunningMax ==
    LET W == CumulativeValue(1, portfolio_daily_returns.val)
    IN \A t \in DOMAIN W : \A u \in 1..t : ~RatLess(W[t], W[u])

\* C20 as stated: for every non-empty series the reported max drawdown lies in
\* [-100 %, 0 %], and it is 0 when cumulative wealth never falls below its running
\* maximum.
C20_MaxDrawdownInRange ==
    MetricsComputed =>
        LET d == metrics.values.portfolio_max_drawdown
        IN /\ d.tag = "num"
           /\ ~RatLess(d.val, <<-100, 1>>)
           /\ ~RatLess(Zero, d.val)
           /\ NeverBelowRunningMax => d.val = Zero

\* C21: calculate_metrics has returned its dict
MetricsReturned == metrics # NoMetrics

PortfolioMetricNames ==
    {"total_portfolio_return", "annualized_portfolio_return",
     "annualized_portfolio_volatility", "portfolio_sharpe_ratio",
     "portfolio_sortino_ratio", "portfolio_max_drawdown"}

BenchmarkMetricNames ==
    {"total_benchmark_return", "annualized_benchmark_return",
     "annualized_benchmark_volatility", "benchmark_sharpe_ratio"}

\* C21: for an empty series of portfolio returns every portfolio metric is NaN, and
\* for an empty series of benchmark returns every benchmark metric is NaN, whatever
\* the other series is; none of them is 0 or another number.
C21_EmptySeriesAllUndefined ==
    MetricsReturned =>
        /\ portfolio_daily_returns.val = <<>> =>
              \A m \in PortfolioMetricNames : metrics.values[m].tag = "nan"
        /\ benchmark_daily_returns.val = <<>> =>
              \A m \in BenchmarkMetricNames : metrics.values[m].tag = "nan"
        /\ DOMAIN metrics.values = PortfolioMetricNames \cup BenchmarkMetricNames

\* an empty portfolio series next to a benchmark series whose total return is a number
C21_Witness ==
    /\ MetricsReturned
    /\ portfolio_daily_returns.val = <<>>
    /\ benchmark_daily_returns.val # <<>>
    /\ metrics.values.total_benchmark_return.tag = "num"
    /\ metrics.values.portfolio_max_drawdown.tag = "nan"

\* C22, C23, C29: section 3 has built the growth curve perf_df
GrowthCurveBuilt == pc = "done" /\ perf_df # EmptyFrame

\* the date of the first return
FirstReturnDate ==
    CHOOSE d \in Range(portfolio_daily_returns.index) :
        \A e \in Range(portfolio_daily_returns.index) : d <= e

\* C22: whenever a growth curve is built, its first row holds exactly
\* initial_investment as portfolio value, is dated one day before the first return
\* date and strictly before every other row, and the curve has one row more than the
\* series of portfolio returns.
C22_GrowthCurveStartsAtInvestment ==
    GrowthCurveBuilt =>
        /\ perf_df.Portfolio_Value[1] = <<initial_investment, 1>>
        /\ perf_df.index[1] = FirstReturnDate - 1
        /\ \A k \in 2..Len(perf_df.index) : perf_df.index[1] < perf_df.index[k]
        /\ Len(perf_df.index) = Len(portfolio_daily_returns.index) + 1
        /\ Len(perf_df.Portfolio_Value) = Len(perf_df.index)

\* a curve over two returns for an investment of 1000
C22_Witness ==
    /\ GrowthCurveBuilt
    /\ Len(portfolio_daily_returns.index) = 2
    /\ initial_investment = 1000
    /\ perf_df.Portfolio_Value[2] # perf_df.Portfolio_Value[1]

\* every benchmark value of the growth curve is NaN
BenchmarkColumnUndefined ==
    \A k \in DOMAIN perf_df.Benchmark_Value : IsNaN(perf_df.Benchmark_Value[k])

\* C23: in a growth curve the benchmark column is NaN in every row, the starting row
\* included, exactly when the series of benchmark returns is empty; when that series
\* is not empty the starting row's benchmark value is initial_investment and no
\* benchmark value is NaN.
C23_BenchmarkColumnUndefinedIffEmpty ==
    GrowthCurveBuilt =>
        /\ BenchmarkColumnUndefined <=> benchmark_daily_returns.val = <<>>
        /\ benchmark_daily_returns.val # <<>> =>
              /\ perf_df.Benchmark_Value[1] = <<initial_investment, 1>>
              /\ \A k \in DOMAIN perf_df.Benchmark_Value :
                    ~IsNaN(perf_df.Benchmark_Value[k])
        /\ Len(perf_df.Benchmark_Value) = Len(perf_df.index)

\* a curve with a benchmark over two returns
C23_Witness ==
    /\ GrowthCurveBuilt
    /\ Len(benchmark_daily_returns.val) = 2
    /\ perf_df.Benchmark_Value[3] # perf_df.Benchmark_Value[1]
    /\ ~BenchmarkColumnUndefined

\* C25: the request has run to its end
RequestEnded == pc = "done"

\* st.error was called, or an exception ended the run
ErrorReported == \E i \in DOMAIN msgs : msgs[i][1] \in {"error", "exception"}

\* metrics, growth curve and allocation are displayed
CompleteResult == displayed = {"metrics", "growth", "allocation"}

\* C25 as stated: every request ends either with the complete result and no error, or
\* with at least one error and nothing of the result displayed.
C25_ResultOrError ==
    RequestEnded =>
        \/ CompleteResult /\ ~ErrorReported
        \/ ErrorReported /\ displayed = {}

\* what holds of the code: no request ends with both an error and a part of the
\* result, and none with neither
C25_NeverBothNeverNeither ==
    RequestEnded => (ErrorReported <=> displayed = {})

\* C26: the request's input fails a check of section 1
ValidationFailed == ~dates_ok \/ benchmark_ticker = "" \/ EarliestViolatedRule # 0

\* every identifier of the validated allocation is the benchmark
EmptyAfterBenchmarkRemoval ==
    validated_df.Ticker # <<>> /\ NonBenchmark = {}

\* none of the errors of section 1 and of the guard was reported
NoValidationError ==
    \A i \in DOMAIN msgs :
        msgs[i][1] = "error" =>
            msgs[i][2] \notin {"dates", "benchmark_empty", "tickers_empty", "weights_empty",
                               "weights_numeric", "mismatch", "negative", "total_zero",
                               "empty_after_benchmark", "zero_after_benchmark"}

\* C26: fetch_data is called at most once in a request, and never in a request with a
\* date error, an empty benchmark, a parse, count, negative-weight or zero-sum error,
\* or a portfolio that is empty once the benchmark is removed.
C26_FetchOnlyAfterValidation ==
    /\ fetch_calls <= 1
    /\ pc # "idle" /\ (ValidationFailed \/ EmptyAfterBenchmarkRemoval) => fetch_calls = 0
    /\ fetch_calls = 1 => pc \in {"calc", "done"} /\ NoValidationError

\* a request with nothing but a negative weight wrong has ended without a fetch, as
\* has one with a wrong date range
C26_Witness ==
    /\ pc = "done"
    /\ fetch_calls = 0
    /\ EarliestViolatedRule = 3
    /\ dates_ok /\ benchmark_ticker # ""
    /\ ~NoErrors

\* C27, C28: the downloaded price column of a column c of the returned table
Observed(c) ==
    IF all_data.multi THEN PriceField[c]
    ELSE PriceField[CHOOSE f \in DOMAIN PriceField : TRUE]

\* the dates before and after d on which c has a downloaded price
EarlierObserved(c, d) == {e \in DOMAIN Observed(c) : e < d /\ Observed(c)[e] # NaN}
LaterObserved(c, d) == {e \in DOMAIN Observed(c) : e > d /\ Observed(c)[e] # NaN}

\* the price the statement gives c on date d
StatedPrice(c, d) ==
    IF Observed(c)[d] # NaN THEN Observed(c)[d]
    ELSE IF EarlierObserved(c, d) # {}
    THEN Observed(c)[CHOOSE e \in EarlierObserved(c, d) :
                         \A f \in EarlierObserved(c, d) : f <= e]
    ELSE Observed(c)[CHOOSE e \in LaterObserved(c, d) :
                         \A f \in LaterObserved(c, d) : e <= f]

\* C27: in the table fetch_data returns, every column holds on every date its
\* downloaded price when there is one, else its most recent earlier downloaded price
\* when there is one, else its earliest later downloaded price.
C27_ForwardThenBackFill ==
    pc = "returned" /\ ~raw_data.none =>
        \A c \in raw_data.columns : \A k \in DOMAIN raw_data.index :
            raw_data.val[c][k] = StatedPrice(c, raw_data.index[k])

\* a kept date on which a column has no price between an earlier price and a
\* different later one, and a column whose first price comes after a kept date
C27_Witness ==
    /\ pc = "returned"
    /\ ~raw_data.none
    /\ \E c \in raw_data.columns : \E k \in DOMAIN raw_data.index :
          LET d == raw_data.index[k]
          IN /\ Observed(c)[d] = NaN
             /\ EarlierObserved(c, d) # {}
             /\ LaterObserved(c, d) # {}
             /\ \A e \in EarlierObserved(c, d), f \in LaterObserved(c, d) :
                   Observed(c)[e] # Observed(c)[f]
    /\ \E c \in raw_data.columns : \E k \in DOMAIN raw_data.index :
          Observed(c)[raw_data.index[k]] = NaN /\ EarlierObserved(c, raw_data.index[k]) = {}

\* the raw dates on which a column of the returned table has a downloaded price
DatesWithPrice ==
    {i \in DOMAIN all_data.index : \E c \in raw_data.columns : Observed(c)[i] # NaN}

\* C28: the dates of the table fetch_data returns are exactly the raw dates on which at
\* least one surviving identifier has a downloaded price, in the order of the download.
C28_KeptDates ==
    pc = "returned" /\ ~raw_data.none =>
        raw_data.index = SelectSeqIdx(all_data.index, DatesWithPrice)

\* a date was dropped, and a date was kept on which a surviving identifier has no price
C28_Witness ==
    /\ pc = "returned"
    /\ ~raw_data.none
    /\ Cardinality(raw_data.columns) >= 2
    /\ Len(raw_data.index) < Len(all_data.index)
    /\ \E k \in DOMAIN raw_data.index : \E c \in raw_data.columns :
          Observed(c)[raw_data.index[k]] = NaN

\* C29: the product of 1 + r_s over the first t portfolio returns
RECURSIVE ProductUpTo(_)
ProductUpTo(t) ==
    IF t = 0 THEN One
    ELSE RatMul(ProductUpTo(t - 1), RatAdd(One, portfolio_daily_returns.val[t]))

\* the total return the metrics report, not in percent
ReportedTotalReturn == RatDiv(metrics.values.total_portfolio_return.val, <<100, 1>>)

\* C29: for a non-empty series of portfolio returns the last portfolio value of the
\* growth curve is initial_investment * (1 + total return), with the total return the
\* metrics report, and the value on the date of the t-th return is initial_investment
\* times the product of 1 + r_s over s <= t.
C29_CurveAgreesWithMetrics ==
    GrowthCurveBuilt /\ MetricsComputed =>
        LET n == Len(portfolio_daily_returns.val)
        IN /\ Len(perf_df.Portfolio_Value) = n + 1
           /\ perf_df.Portfolio_Value[n + 1] =
                 RatMul(<<initial_investment, 1>>, RatAdd(One, ReportedTotalReturn))
           /\ RatAdd(One, ReportedTotalReturn) = ProductUpTo(n)
           /\ \A t \in 1..n :
                 /\ perf_df.index[t + 1] = portfolio_daily_returns.index[t]
                 /\ perf_df.Portfolio_Value[t + 1] =
                       RatMul(<<initial_investment, 1>>, ProductUpTo(t))

\* a curve over two returns that are not 0, for an investment of 1000
C29_Witness ==
    /\ GrowthCurveBuilt
    /\ MetricsComputed
    /\ initial_investment = 1000
    /\ Len(portfolio_daily_returns.val) = 2
    /\ \A t \in 1..2 : portfolio_daily_returns.val[t] # Zero
    /\ ReportedTotalReturn # Zero

\* C30: a series of one return has NaN for annualized volatility and Sharpe ratio,
\* for the portfolio and for the benchmark, and a portfolio series with exactly one
\* negative return has NaN for the Sortino ratio.
C30_SingleValueUndefined ==
    MetricsReturned =>
        /\ Len(portfolio_daily_returns.val) = 1 =>
              /\ metrics.values.annualized_portfolio_volatility.tag = "nan"
              /\ metrics.values.portfolio_sharpe_ratio.tag = "nan"
        /\ Len(benchmark_daily_returns.val) = 1 =>
              /\ metrics.values.annualized_benchmark_volatility.tag = "nan"
              /\ metrics.values.benchmark_sharpe_ratio.tag = "nan"
        /\ Cardinality(Losses) = 1 =>
              metrics.values.portfolio_sortino_ratio.tag = "nan"

\* three returns of which one is negative: the Sharpe ratio is a number and the
\* Sortino ratio is not; the benchmark has one return
C30_Witness ==
    /\ MetricsReturned
    /\ Len(portfolio_daily_returns.val) = 3
    /\ Cardinality(Losses) = 1
    /\ metrics.values.portfolio_sharpe_ratio.tag = "ratio"
    /\ metrics.values.portfolio_sortino_ratio.tag = "nan"
    /\ Len(benchmark_daily_returns.val) = 1
    /\ metrics.values.total_benchmark_return.tag = "num"

\* the request has made its call of fetch_data
FetchDataCalled == pc \in {"calc", "done"} /\ fetch_calls > 0

\* an earlier request, less than one hour before, called fetch_data with the same key
RepeatedWithinHour ==
    \E q \in requested : q.key = Key(all_tickers_to_fetch, period) /\ q.age < ttl

\* C24: Fetched market data is cached for one hour under the key (identifiers, start,
\* end): a request whose key equals that of an earlier request made less than one hour
\* before is served from the cache without a new download, and no request downloads
\* more than once.
C24_ServedFromCacheWithinHour ==
    FetchDataCalled =>
        /\ RepeatedWithinHour => downloads = 0
        /\ downloads <= 1

\* C24, what the code keeps of it: a call of fetch_data that finds an entry under its
\* key downloads nothing, any other call downloads exactly once, and entries are never
\* older than the time-to-live.
C24_DownloadOnlyOnMiss ==
    /\ downloads <= fetch_calls
    /\ \A e \in cache : e.age < ttl
    /\ pc = "calc" /\ downloads = 1 =>
          [key |-> Key(all_tickers_to_fetch, period),
           value |-> [data |-> raw_data, invalid |-> invalid_tickers_fetch,
                      msgs |-> (CHOOSE e \in cache :
                                   e.key = Key(all_tickers_to_fetch, period)).value.msgs],
           age |-> 0] \in cache

\* a repeated request within the hour was served from the cache
C24_WitnessHit ==
    /\ FetchDataCalled
    /\ RepeatedWithinHour
    /\ downloads = 0

=============================================================================
